---- MODULE Spec2Model ----
(***************************************************************************)
(* Group resolution and record de-duplication of the old-prague-photos     *)
(* viewer: the union-find resolver, the correction projector and the group *)
(* builder of viewer/static/zoomify.js, the duplicate-review session of    *)
(* viewer/static/photo-meta.js and the two write/read endpoints            *)
(* functions/api/merges.js and functions/api/verify.js.                    *)
(*                                                                         *)
(* Strings are sequences of character codes, compared as JavaScript        *)
(* compares strings (code unit by code unit, a proper prefix being         *)
(* smaller); "" is the empty sequence, the only falsy identifier.          *)
(***************************************************************************)
EXTENDS Integers, Sequences, FiniteSets, TLC

VARIABLES
    mergeLog,        \* table merge_decisions, in id order
    corrLog,         \* table corrections, in id order
    logStates,       \* history: the <<Len(mergeLog), Len(corrLog)>> the log went through
    env,             \* server configuration (TURNSTILE_* variables)
    response,        \* status and detail of the response the gateway sent last
    pc,              \* position of the session's bootstrap()
    features,        \* state.features: per record, coordinates / corrected / group_root
    groupIds,        \* state.groupIds
    corrections,     \* the items of the corrections read handed to applyCorrections
    decisions,       \* state.decisions
    parent,          \* the parent Map of state.resolveGroupId, as buildMergeResolver left it
    decisionsByPair, \* state.decisionsByPair
    groups,          \* state.groups
    candidates,      \* state.candidates
    remaining,       \* state.remaining
    history,         \* state.history
    currentPair,     \* state.currentPair
    surfaced,        \* TRUE once bootstrap() rejected and the error status was shown
    seen,            \* history: log lengths at the session's two log reads
    dataReady,       \* pomoc.js: dataReady
    flowStarted,     \* pomoc.js: flowStarted
    sessionVerified, \* pomoc.js: state.sessionVerified
    controlsEnabled, \* pomoc.js: the vote, skip and previous buttons are not disabled
    currentGroup,    \* pomoc.js: state.currentGroup (its id, EmptyStr when there is none)
    refreshes,       \* pomoc.js: calls of refreshRemainingCloud waiting for their response
    mode,            \* pomoc.js: state.mode (EmptyStr for null)
    leftFeature,     \* photo-meta.js: state.leftFeature (its id)
    zoomLastXid,     \* photo-meta.js: leftZoom.lastXid
    zoomRequests,    \* photo-meta.js: calls of loadZoomifyInto(leftZoom, xid) waiting for the metadata
    zoomOpened,      \* photo-meta.js: the record whose tile source leftZoom.viewer opened last
    zoomFallback,    \* photo-meta.js: leftZoom.wrapEl carries the class "is-fallback"
    now,             \* the server's clock, Date.now(), in milliseconds
    issued,          \* history: the session cookies /api/verify set, with the time of the verification
    authorizedBy     \* history: the cookie and the time of the last write accepted through a session

vars == <<mergeLog, corrLog, logStates, env, response, pc, features,
          groupIds, corrections, decisions, parent, decisionsByPair, groups,
          candidates, remaining, history, currentPair, surfaced, seen,
          dataReady, flowStarted, sessionVerified, controlsEnabled, currentGroup,
          refreshes, mode, leftFeature, zoomLastXid, zoomRequests, zoomOpened,
          zoomFallback,
          now, issued, authorizedBy>>

logVars == <<mergeLog, corrLog, logStates>>
gateVars == <<env, response>>
sessVars == <<pc, features, groupIds, corrections, decisions, parent, decisionsByPair, groups,
              candidates, remaining, history, currentPair, surfaced, seen>>
helpVars == <<dataReady, flowStarted, sessionVerified, controlsEnabled, currentGroup, refreshes,
              mode>>
zoomVars == <<leftFeature, zoomLastXid, zoomRequests, zoomOpened, zoomFallback>>
clockVars == <<now, issued, authorizedBy>>
pageVars == <<helpVars, zoomVars, clockVars>>

----------------------------------------------------------------------------
(* Bounds *)

MaxDecisions == 3   \* length of a decision list given to the resolver
MaxLogRows == 2     \* rows of merge_decisions and corrections together
MaxCorrections == 2 \* length of a correction list given to the projector
MaxItems == 3       \* records of one series given to the sort
MaxPoolGroups == 3  \* groups at one spot, whose pairs fill the pool
MaxHistory == 5     \* pairs on the history stack of the review page
MaxKeyedGroups == 4 \* groups at one spot, whose pairs are given identities
MaxShown == 1   \* length of the help page's history stack
MaxRefreshes == 1   \* pool refreshes of the help page in flight at once
MaxHelpRecords == 2   \* records of the dataset the help page loads
MaxVotes == 1   \* rows of the corrections table beside the help page
MaxZoomRecords == 3   \* records that can be selected on the left side
MaxZoomRequests == 3   \* metadata requests of the left zoom viewer in flight at once
MaxTicks == 4   \* half seconds the server's clock advances by, beside one session lifetime
MaxSessions == 1   \* session cookies issued

----------------------------------------------------------------------------
(* Strings *)

EmptyStr == <<>>

\* The group keys in play: "b", "ab" and "a".  Their lexicographic order,
\* "a" < "ab" < "b", is neither the order by length nor the order in which the
\* dataset lists them.
KeyB == <<98>>
KeyAB == <<97, 98>>
KeyA == <<97>>

Keys == {KeyB, KeyAB, KeyA}

\* Record identifiers "1", "2", "3", "4", and "9", which no record carries.
Xid1 == <<49>>
Xid2 == <<50>>
Xid3 == <<51>>
Xid4 == <<52>>
Xid9 == <<57>>

\* The verdicts: "same", "different", "ok", "wrong", "flag".
VSame == <<115, 97, 109, 101>>
VDifferent == <<100, 105, 102, 102, 101, 114, 101, 110, 116>>
VOk == <<111, 107>>
VWrong == <<119, 114, 111, 110, 103>>
VFlag == <<102, 108, 97, 103>>

RECURSIVE StrLess(_, _)
StrLess(a, b) ==
    IF b = <<>> THEN FALSE
    ELSE IF a = <<>> THEN TRUE
    ELSE IF Head(a) # Head(b) THEN Head(a) < Head(b)
    ELSE StrLess(Tail(a), Tail(b))

IsSpace(ch) == ch = 32

RECURSIVE TrimLeft(_)
TrimLeft(s) ==
    IF s # <<>> /\ IsSpace(Head(s)) THEN TrimLeft(Tail(s)) ELSE s

RECURSIVE TrimRight(_)
TrimRight(s) ==
    IF s # <<>> /\ IsSpace(s[Len(s)]) THEN TrimRight(SubSeq(s, 1, Len(s) - 1)) ELSE s

Trim(s) == TrimRight(TrimLeft(s))

\* String(value || "").trim()
normalizeId(value) == Trim(value)

----------------------------------------------------------------------------
(* Union-find resolver, zoomify.js *)

createUnionFind(ids) == [id \in (ids \ {EmptyStr}) |-> id]

\* find without the walk to the root: the parent is returned as the root.
findShallow(p, id) ==
    IF id = EmptyStr THEN [root |-> EmptyStr, parent |-> p]
    ELSE LET p1 == IF id \in DOMAIN p THEN p ELSE (id :> id) @@ p
         IN  [root |-> p1[id], parent |-> p1]

\* find(id): the root and the parent map as find leaves it (lazy registration,
\* path compression).
RECURSIVE find(_, _)
find(p, id) ==
    IF id = EmptyStr THEN [root |-> EmptyStr, parent |-> p]
    ELSE LET p1 == IF id \in DOMAIN p THEN p ELSE (id :> id) @@ p
             current == p1[id]
         IN  IF current = id THEN [root |-> id, parent |-> p1]
             ELSE LET r == find(p1, current)
                  IN  [root |-> r.root, parent |-> [r.parent EXCEPT ![id] = r.root]]

\* The first root wins whatever its value.
unionWinnerFirst(rootA, rootB) == rootA

\* The larger root wins.
unionWinnerLarger(rootA, rootB) == IF StrLess(rootA, rootB) THEN rootB ELSE rootA

unionWinner(rootA, rootB) == IF StrLess(rootA, rootB) THEN rootA ELSE rootB

union(p, a, b) ==
    IF a = EmptyStr \/ b = EmptyStr THEN p
    ELSE LET fa == find(p, a)
             fb == find(fa.parent, b)
             rootA == fa.root
             rootB == fb.root
             winner == unionWinner(rootA, rootB)
             loser == IF winner = rootA THEN rootB ELSE rootA
         IN  IF rootA = rootB THEN fb.parent
             ELSE [fb.parent EXCEPT ![loser] = winner]

\* The body of the forEach of buildMergeResolver, without the test of the
\* verdict.
mergeItemStepAnyVerdict(p, item) ==
    LET a == normalizeId(item.group_id_a)
        b == normalizeId(item.group_id_b)
    IN  IF a = EmptyStr \/ b = EmptyStr \/ a = b THEN p
        ELSE union(p, a, b)

\* The body of the forEach of buildMergeResolver.
mergeItemStep(p, item) ==
    IF item.verdict # VSame THEN p
    ELSE LET a == normalizeId(item.group_id_a)
             b == normalizeId(item.group_id_b)
         IN  IF a = EmptyStr \/ b = EmptyStr \/ a = b THEN p
             ELSE union(p, a, b)

RECURSIVE foldDecisions(_, _)
foldDecisions(p, decs) ==
    IF decs = <<>> THEN p
    ELSE foldDecisions(mergeItemStep(p, Head(decs)), Tail(decs))

\* The parent map captured by the closure buildMergeResolver returns.
buildMergeResolver(ids, decs) == foldDecisions(createUnionFind(ids), decs)

\* The returned closure: (groupId) => id ? unionFind.find(id) : "".
resolveCall(p, groupId) ==
    LET id == normalizeId(groupId)
    IN  IF id = EmptyStr THEN [root |-> EmptyStr, parent |-> p] ELSE find(p, id)

resolveGroupId(p, groupId) == resolveCall(p, groupId).root

----------------------------------------------------------------------------
(* Decision submission gateway: functions/api/merges.js (POST /api/merges)
   and the corrections handler of functions/api/verify.js (POST
   /api/corrections).  A request carries the JSON body, the Turnstile token
   ("none" when absent, "good" when siteverify accepts it, "bad" otherwise)
   and the session cookie ("none", "malformed", "expired", "forged": unexpired
   with a wrong signature, "valid": unexpired with the HMAC of its expiry). *)

ToLower(ch) == IF ch \in 65..90 THEN ch + 32 ELSE ch

LowerCase(s) == [i \in 1..Len(s) |-> ToLower(s[i])]

\* A JSON value used as a coordinate: null, a number, or something Number()
\* turns into NaN.
Null == [kind |-> "null", v |-> 0]
Num(n) == [kind |-> "num", v |-> n]
NaNValue == [kind |-> "nan", v |-> 0]

\* Number(x): Number(null) is 0.
Number(x) == IF x.kind = "null" THEN Num(0) ELSE x

isFinite(x) == x.kind = "num"

\* TURNSTILE_SESSION_SECRET || TURNSTILE_SECRET_KEY
sessionSecret(e) == e.sessionSecret \/ e.secretKey

hasValidSession(cookie, e) ==
    IF cookie = "none" THEN FALSE
    ELSE IF cookie = "malformed" THEN FALSE
    ELSE IF cookie = "expired" THEN FALSE
    ELSE IF ~sessionSecret(e) /\ e.bypass THEN TRUE
    ELSE IF ~sessionSecret(e) THEN FALSE
    ELSE cookie = "valid"

\* The gate consulted without looking at the token.
verifyTurnstileSkipped(token, e) == "ok"

\* "ok" when verifyTurnstile returns, the message of the Error it throws
\* otherwise.
verifyTurnstile(token, e) ==
    IF e.bypass THEN "ok"
    ELSE IF ~e.secretKey THEN "Turnstile neni nastaven"
    ELSE IF token = "none" THEN "Turnstile je povinny"
    ELSE IF token # "good" THEN "Overeni Turnstile selhalo"
    ELSE "ok"

Reject(log, detail) == [status |-> 400, detail |-> detail, log |-> log]

MergeRow(a, b, v) == [group_id_a |-> a, group_id_b |-> b, verdict |-> v]

\* The checks and the ordering of handlePost of merges.js.
missingGroupFirstOnly(groupIdA, groupIdB) == groupIdA = EmptyStr

missingGroup(groupIdA, groupIdB) == groupIdA = EmptyStr \/ groupIdB = EmptyStr

recognizedMergeVerdictAny(verdict) == TRUE

recognizedMergeVerdict(verdict) == verdict \in {VSame, VDifferent}

storedPairAsSent(groupIdA, groupIdB) == <<groupIdA, groupIdB>>

storedPair(groupIdA, groupIdB) ==
    IF StrLess(groupIdB, groupIdA) THEN <<groupIdB, groupIdA>>
    ELSE <<groupIdA, groupIdB>>

\* handlePost of merges.js: the response and the table after the request.
\* INSERT INTO merge_decisions: one new row behind the existing ones.
insertMergeUpsert(log, row) ==
    IF \E n \in 1..Len(log) :
            log[n].group_id_a = row.group_id_a /\ log[n].group_id_b = row.group_id_b
        THEN [n \in 1..Len(log) |->
                IF log[n].group_id_a = row.group_id_a /\ log[n].group_id_b = row.group_id_b
                    THEN row ELSE log[n]]
        ELSE Append(log, row)

insertMerge(log, row) == Append(log, row)

mergesHandlePost(log, req, e) ==
    IF ~req.json THEN Reject(log, "Neplatny JSON")
    ELSE LET groupIdA == Trim(req.group_id_a)
             groupIdB == Trim(req.group_id_b)
             lowered == LowerCase(Trim(req.verdict))
             verdict == IF lowered = EmptyStr THEN VSame ELSE lowered
             hasSession == hasValidSession(req.cookie, e)
             gate == IF hasSession THEN "ok" ELSE verifyTurnstile(req.token, e)
         IN  IF missingGroup(groupIdA, groupIdB)
                 THEN Reject(log, "Chybi skupina")
             ELSE IF groupIdA = groupIdB
                 THEN Reject(log, "Nelze sloucit stejnou skupinu")
             ELSE IF ~recognizedMergeVerdict(verdict)
                 THEN Reject(log, "Neplatny typ rozhodnuti")
             ELSE IF gate # "ok" THEN Reject(log, gate)
             ELSE [status |-> 200, detail |-> "ok",
                   log |-> insertMerge(log,
                       MergeRow(storedPair(groupIdA, groupIdB)[1],
                                storedPair(groupIdA, groupIdB)[2], verdict))]

CorrectionRow(xid, lat, lon, has, v) ==
    [xid |-> xid, lat |-> lat, lon |-> lon, has_coordinates |-> has, verdict |-> v]

\* The range check of handlePost of the corrections handler.
outOfRangeLatAsLon(latNum, lonNum) ==
    latNum.v < -180 \/ latNum.v > 180 \/ lonNum.v < -180 \/ lonNum.v > 180

outOfRange(latNum, lonNum) ==
    latNum.v < -90 \/ latNum.v > 90 \/ lonNum.v < -180 \/ lonNum.v > 180

\* handlePost of the corrections handler: the response and the table after
\* the request.  message, email and user_agent are stored with the row and
\* read by nothing modelled here.
correctionsHandlePost(log, req, e) ==
    IF ~req.json THEN Reject(log, "Neplatny JSON")
    ELSE LET xid == Trim(req.xid)
             lat == req.lat
             lon == req.lon
             hasCoordinates == lat # Null /\ lon # Null
             verdictRaw == LowerCase(Trim(req.verdict))
             verdict == IF verdictRaw # EmptyStr THEN verdictRaw
                        ELSE IF hasCoordinates THEN VWrong ELSE VFlag
             latNum == Number(lat)
             lonNum == Number(lon)
             gate == verifyTurnstile(req.token, e)
         IN  IF xid = EmptyStr THEN Reject(log, "Chybi xid")
             ELSE IF verdict \notin {VOk, VWrong, VFlag}
                 THEN Reject(log, "Neplatny typ hlaseni")
             ELSE IF (lat = Null) # (lon = Null) THEN Reject(log, "Neplatna poloha")
             ELSE IF verdict = VOk /\ hasCoordinates
                 THEN Reject(log, "Potvrzeni OK nesmi obsahovat polohu")
             ELSE IF verdict = VWrong /\ ~hasCoordinates
                 THEN Reject(log, "Pro opravu je nutna poloha")
             ELSE IF hasCoordinates /\ (~isFinite(latNum) \/ ~isFinite(lonNum))
                 THEN Reject(log, "Neplatna poloha")
             ELSE IF hasCoordinates /\ outOfRange(latNum, lonNum)
                 THEN Reject(log, "Neplatna poloha")
             ELSE IF req.email = "invalid" THEN Reject(log, "Neplatny e-mail")
             ELSE IF gate # "ok" THEN Reject(log, gate)
             ELSE [status |-> 200, detail |-> "ok",
                   log |-> Append(log,
                       CorrectionRow(xid,
                                     IF hasCoordinates THEN latNum ELSE Null,
                                     IF hasCoordinates THEN lonNum ELSE Null,
                                     IF hasCoordinates THEN 1 ELSE 0,
                                     verdict))]

----------------------------------------------------------------------------
(* Decision log reads.  Neither query has an ORDER BY: the rows come back in
   the order the query plan produces, so a read returns the set of its rows
   in any order. *)

\* GET /api/merges: per stored pair, the row with the largest id.
mergesAllIds(log) == 1..Len(log)

mergesOldestIds(log) ==
    {i \in 1..Len(log) :
        \A j \in 1..Len(log) :
            (log[j].group_id_a = log[i].group_id_a
             /\ log[j].group_id_b = log[i].group_id_b) => i <= j}

mergesLatestIds(log) ==
    {i \in 1..Len(log) :
        \A j \in 1..Len(log) :
            (log[j].group_id_a = log[i].group_id_a
             /\ log[j].group_id_b = log[i].group_id_b) => j <= i}

mergesHandleGet(log) == {log[i] : i \in mergesLatestIds(log)}

\* GET /api/corrections: per xid, the verdict of the row with the largest
\* id, joined with the coordinates of the largest-id row that has some.
correctionsLatestAny(log) ==
    {i \in 1..Len(log) : \A j \in 1..Len(log) : log[j].xid = log[i].xid => j <= i}

correctionsLatestCoords(log, xid) ==
    {i \in 1..Len(log) :
        /\ log[i].xid = xid /\ log[i].has_coordinates = 1
        /\ \A j \in 1..Len(log) :
            (log[j].xid = xid /\ log[j].has_coordinates = 1) => j <= i}

correctionsItem(log, i) ==
    LET c == correctionsLatestCoords(log, log[i].xid)
    IN  IF c = {}
        THEN [xid |-> log[i].xid, verdict |-> log[i].verdict,
              lat |-> Null, lon |-> Null, has_coordinates |-> 0]
        ELSE LET k == CHOOSE k \in c : TRUE
             IN  [xid |-> log[i].xid, verdict |-> log[i].verdict,
                  lat |-> log[k].lat, lon |-> log[k].lon,
                  has_coordinates |-> log[k].has_coordinates]

correctionsHandleGet(log) == {correctionsItem(log, i) : i \in correctionsLatestAny(log)}

\* The orders in which a read can return the rows S.
ResultOrders(S) ==
    {q \in [1..Cardinality(S) -> S] : \A i, j \in 1..Cardinality(S) : q[i] = q[j] => i = j}

----------------------------------------------------------------------------
(* The dataset, /data/photos.geojson: four records in file order.  Records
   1 and 2 are alone in the series "b" and "ab", records 3 and 4 share the
   series "a"; all but record 4 lie on the same spot. *)

Feature(id, group, signature, lat, lon) ==
    [id |-> id, group_id |-> group, signature |-> signature,
     lat |-> Num(lat), lon |-> Num(lon), corrected |-> <<>>, group_root |-> EmptyStr]

\* Signatures "q" and "p"; records 3 and 4 have none.
Photos ==
    << Feature(Xid1, KeyB, <<113>>, 1, 1),
       Feature(Xid2, KeyAB, <<112>>, 1, 1),
       Feature(Xid3, KeyA, EmptyStr, 1, 1),
       Feature(Xid4, KeyA, EmptyStr, 2, 2) >>

----------------------------------------------------------------------------
(* Grouping, zoomify.js *)

featureGroupKey(f) ==
    IF normalizeId(f.group_id) # EmptyStr THEN normalizeId(f.group_id)
    ELSE normalizeId(f.id)

\* buildGroupIdByXid: the map xid -> group id (a later record with the same
\* xid overwrites an earlier one) and the set of group ids.
keyedFeatures(feats) ==
    {i \in 1..Len(feats) : normalizeId(feats[i].id) # EmptyStr}

groupIdByXidMap(feats) ==
    [x \in {normalizeId(feats[i].id) : i \in keyedFeatures(feats)} |->
        LET last == CHOOSE i \in keyedFeatures(feats) :
                        /\ normalizeId(feats[i].id) = x
                        /\ \A j \in keyedFeatures(feats) :
                            normalizeId(feats[j].id) = x => j <= i
        IN  featureGroupKey(feats[last])]

groupIdSet(feats) == {featureGroupKey(feats[i]) : i \in keyedFeatures(feats)}

\* The first forEach of applyCorrections: the Map canonical group -> item,
\* a later item of the list overwriting an earlier one of the same group.
correctionBaseGroup(item, byXid) ==
    LET xid == normalizeId(item.xid)
    IN  IF xid \in DOMAIN byXid THEN byXid[xid] ELSE xid

RECURSIVE correctionByGroupFirstWins(_, _, _, _)
correctionByGroupFirstWins(acc, items, byXid, p) ==
    IF items = <<>> THEN acc
    ELSE LET item == Head(items)
             baseGroup == correctionBaseGroup(item, byXid)
             groupId == resolveGroupId(p, baseGroup)
         IN  IF baseGroup = EmptyStr
                 THEN correctionByGroupFirstWins(acc, Tail(items), byXid, p)
             ELSE correctionByGroupFirstWins(acc @@ (groupId :> item), Tail(items), byXid, p)

RECURSIVE correctionByGroup(_, _, _, _)
correctionByGroup(acc, items, byXid, p) ==
    IF items = <<>> THEN acc
    ELSE LET item == Head(items)
             baseGroup == correctionBaseGroup(item, byXid)
             groupId == resolveGroupId(p, baseGroup)
         IN  IF baseGroup = EmptyStr THEN correctionByGroup(acc, Tail(items), byXid, p)
             ELSE correctionByGroup((groupId :> item) @@ acc, Tail(items), byXid, p)

\* The second forEach of applyCorrections, for one record.
correctedFeature(f, byGroup, p) ==
    LET baseGroup == featureGroupKey(f)
        groupId == resolveGroupId(p, baseGroup)
    IN  IF groupId = EmptyStr \/ groupId \notin DOMAIN byGroup THEN f
        ELSE LET lat == Number(byGroup[groupId].lat)
                 lon == Number(byGroup[groupId].lon)
             IN  IF ~isFinite(lat) \/ ~isFinite(lon) THEN f
                 ELSE [f EXCEPT !.lat = lat, !.lon = lon, !.corrected = <<lat, lon>>]

applyCorrections(feats, items, byXid, p) ==
    LET byGroup == correctionByGroup(<<>>, items, byXid, p)
    IN  [i \in 1..Len(feats) |-> correctedFeature(feats[i], byGroup, p)]

\* localeCompare on the identifiers and signatures in play (digits and
\* lower-case letters collate in code order).
localeCompare(a, b) == IF a = b THEN 0 ELSE IF StrLess(a, b) THEN -1 ELSE 1

\* The comparator of sortGroupItems.
compareItems(fa, fb) ==
    LET signatureA == normalizeId(fa.signature)
        signatureB == normalizeId(fb.signature)
    IN  IF signatureA # EmptyStr /\ signatureB # EmptyStr
            THEN localeCompare(signatureA, signatureB)
        ELSE IF signatureA # EmptyStr THEN -1
        ELSE IF signatureB # EmptyStr THEN 1
        ELSE localeCompare(normalizeId(fa.id), normalizeId(fb.id))

\* Array.prototype.sort is stable: an item goes behind those it does not
\* precede.
RECURSIVE insertItem(_, _, _)
insertItem(sorted, x, feats) ==
    IF sorted = <<>> THEN <<x>>
    ELSE IF compareItems(feats[Head(sorted)], feats[x]) <= 0
        THEN <<Head(sorted)>> \o insertItem(Tail(sorted), x, feats)
    ELSE <<x>> \o sorted

RECURSIVE sortFrom(_, _, _)
sortFrom(sorted, items, feats) ==
    IF items = <<>> THEN sorted
    ELSE sortFrom(insertItem(sorted, Head(items), feats), Tail(items), feats)

sortGroupItems(items, feats) == sortFrom(<<>>, items, feats)

\* buildGroups: props.group_root of every record ...
\* (without a resolver the series key itself) ...
baseRooted(feats) ==
    [i \in 1..Len(feats) |->
        LET groupId == featureGroupKey(feats[i])
        IN  IF groupId = EmptyStr THEN feats[i]
            ELSE [feats[i] EXCEPT !.group_root = groupId]]

rootedFeaturesUnresolved(feats, p) == baseRooted(feats)

rootedFeatures(feats, p) ==
    [i \in 1..Len(feats) |->
        LET groupId == resolveGroupId(p, featureGroupKey(feats[i]))
        IN  IF groupId = EmptyStr THEN feats[i]
            ELSE [feats[i] EXCEPT !.group_root = groupId]]

\* ... the groups in the order of their first record, each with its records
\* in file order ...
RECURSIVE groupOrder(_, _, _)
groupOrder(acc, i, feats) ==
    IF i > Len(feats) THEN acc
    ELSE LET g == feats[i].group_root
         IN  IF g = EmptyStr \/ \E n \in 1..Len(acc) : acc[n] = g
             THEN groupOrder(acc, i + 1, feats)
             ELSE groupOrder(Append(acc, g), i + 1, feats)

RECURSIVE groupMembers(_, _, _)
groupMembers(g, i, feats) ==
    IF i > Len(feats) THEN <<>>
    ELSE IF feats[i].group_root = g THEN <<i>> \o groupMembers(g, i + 1, feats)
    ELSE groupMembers(g, i + 1, feats)

\* ... and the sorted items, the primary and its coordinates.
makeGroup(g, feats) ==
    LET items == sortGroupItems(groupMembers(g, 1, feats), feats)
    IN  [id |-> g, items |-> items, primary |-> items[1],
         lat |-> Number(feats[items[1]].lat), lon |-> Number(feats[items[1]].lon)]

buildGroups(rooted) ==
    LET order == groupOrder(<<>>, 1, rooted)
    IN  [n \in 1..Len(order) |-> makeGroup(order[n], rooted)]

----------------------------------------------------------------------------
(* Candidate pairing, photo-meta.js *)

\* "::"
Separator == <<58, 58>>

pairKeyUnordered(a, b) ==
    IF a = EmptyStr \/ b = EmptyStr THEN EmptyStr ELSE a \o Separator \o b

pairKey(a, b) ==
    IF a = EmptyStr \/ b = EmptyStr THEN EmptyStr
    ELSE IF StrLess(a, b) THEN a \o Separator \o b
    ELSE b \o Separator \o a

\* buildDecisionMap: pair key -> verdict of the last decision of the list
\* that resolves to the pair.
RECURSIVE decisionMap(_, _, _)
decisionMap(acc, decs, p) ==
    IF decs = <<>> THEN acc
    ELSE LET a == Trim(Head(decs).group_id_a)
             b == Trim(Head(decs).group_id_b)
             verdict == Trim(Head(decs).verdict)
             resolvedA == resolveGroupId(p, a)
             resolvedB == resolveGroupId(p, b)
             key == pairKey(resolvedA, resolvedB)
         IN  IF a = EmptyStr \/ b = EmptyStr
                 THEN decisionMap(acc, Tail(decs), p)
             ELSE IF resolvedA = EmptyStr \/ resolvedB = EmptyStr \/ resolvedA = resolvedB
                 THEN decisionMap(acc, Tail(decs), p)
             ELSE IF key = EmptyStr THEN decisionMap(acc, Tail(decs), p)
             ELSE decisionMap((key :> verdict) @@ acc, Tail(decs), p)

buildDecisionMap(decs, p) == decisionMap(<<>>, decs, p)

\* buildCandidates: the coordinate buckets in the order of their first group
\* (coordinates are whole degrees, so toFixed(6) keys are equal exactly when
\* the coordinates are), then the pairs i < j of each bucket that have no
\* decision.
hasSpot(g) == isFinite(g.lat) /\ isFinite(g.lon)

sameSpot(g, h) == g.lat = h.lat /\ g.lon = h.lon

bucketFirst(gs, n) ==
    CHOOSE m \in 1..n : hasSpot(gs[m]) /\ sameSpot(gs[m], gs[n])
                        /\ \A l \in 1..(m - 1) : ~(hasSpot(gs[l]) /\ sameSpot(gs[l], gs[n]))

\* Pair <<i, j>> is pushed before pair <<k, l>>.
pairBefore(gs, x, y) ==
    \/ bucketFirst(gs, x[1]) < bucketFirst(gs, y[1])
    \/ bucketFirst(gs, x[1]) = bucketFirst(gs, y[1])
       /\ (x[1] < y[1] \/ (x[1] = y[1] /\ x[2] < y[2]))

\* The pairs of groups on one spot, decided or not.
candidateIndexPairsIgnoringDecisions(gs, dmap) ==
    {x \in (1..Len(gs)) \X (1..Len(gs)) :
        /\ x[1] < x[2]
        /\ hasSpot(gs[x[1]]) /\ hasSpot(gs[x[2]])
        /\ sameSpot(gs[x[1]], gs[x[2]])
        /\ pairKey(gs[x[1]].id, gs[x[2]].id) # EmptyStr}

candidateIndexPairs(gs, dmap) ==
    {x \in (1..Len(gs)) \X (1..Len(gs)) :
        /\ x[1] < x[2]
        /\ hasSpot(gs[x[1]]) /\ hasSpot(gs[x[2]])
        /\ sameSpot(gs[x[1]], gs[x[2]])
        /\ pairKey(gs[x[1]].id, gs[x[2]].id) # EmptyStr
        /\ pairKey(gs[x[1]].id, gs[x[2]].id) \notin DOMAIN dmap}

RECURSIVE orderPairs(_, _)
orderPairs(S, gs) ==
    IF S = {} THEN <<>>
    ELSE LET x == CHOOSE x \in S : \A y \in S \ {x} : pairBefore(gs, x, y)
         IN  <<x>> \o orderPairs(S \ {x}, gs)

NoPair == [groupA |-> EmptyStr, groupB |-> EmptyStr, key |-> EmptyStr]

buildCandidates(gs, dmap) ==
    LET ordered == orderPairs(candidateIndexPairs(gs, dmap), gs)
    IN  [n \in 1..Len(ordered) |->
            [groupA |-> gs[ordered[n][1]].id, groupB |-> gs[ordered[n][2]].id,
             key |-> pairKey(gs[ordered[n][1]].id, gs[ordered[n][2]].id)]]

----------------------------------------------------------------------------
(* What the grouping is meant to be, stated without the union-find: two keys
   are in one class when a chain of well-formed "same" decisions links them. *)

WellFormedSame(d) ==
    /\ d.verdict = VSame
    /\ normalizeId(d.group_id_a) # EmptyStr
    /\ normalizeId(d.group_id_b) # EmptyStr
    /\ normalizeId(d.group_id_a) # normalizeId(d.group_id_b)

SameEdges(decs) ==
    {<<normalizeId(decs[i].group_id_a), normalizeId(decs[i].group_id_b)>> :
        i \in {j \in 1..Len(decs) : WellFormedSame(decs[j])}}

RECURSIVE Reach(_, _)
Reach(S, edges) ==
    LET N == S \cup {e[2] : e \in {x \in edges : x[1] \in S}}
               \cup {e[1] : e \in {x \in edges : x[2] \in S}}
    IN  IF N = S THEN S ELSE Reach(N, edges)

ClassOf(decs, k) == Reach({k}, SameEdges(decs))

LexMin(S) == CHOOSE x \in S : \A y \in S : ~StrLess(y, x)

\* The orders of a list of n items, computed once for every length in use.
OrdersByLength ==
    [n \in 0..MaxDecisions |->
        {f \in [1..n -> 1..n] : \A i, j \in 1..n : f[i] = f[j] => i = j}]

ListOrders(n) == OrdersByLength[n]

Permuted(s, f) == [i \in 1..Len(s) |-> s[f[i]]]

----------------------------------------------------------------------------
(* Values of the variables a specification does not use *)

NoResponse == [status |-> 0, detail |-> "none"]
ProdEnv == [bypass |-> FALSE, secretKey |-> TRUE, sessionSecret |-> TRUE]

IdleLog ==
    /\ mergeLog = <<>>
    /\ corrLog = <<>>
    /\ logStates = {<<0, 0>>}

IdleGate ==
    /\ env = ProdEnv
    /\ response = NoResponse

IdleResolver ==
    /\ groupIds = {}
    /\ decisions = <<>>
    /\ parent = <<>>

\* What the session has read so far: whether each read succeeded, how many
\* rows the table had when it was read, and how many decisions the session
\* has filed itself since.
NothingSeen ==
    [photosOk |-> TRUE, mergesOk |-> TRUE, mergesAt |-> 0,
     corrOk |-> TRUE, corrAt |-> 0, local |-> 0]

IdleSession ==
    /\ pc = "idle"
    /\ features = <<>>
    /\ corrections = <<>>
    /\ decisionsByPair = <<>>
    /\ groups = <<>>
    /\ candidates = <<>>
    /\ remaining = <<>>
    /\ history = <<>>
    /\ currentPair = NoPair
    /\ surfaced = FALSE
    /\ seen = NothingSeen

\* The help page before its bootstrap, the review page's left zoom viewer
\* before its first record, and the server's clock with no session issued.
IdleHelp ==
    /\ dataReady = FALSE
    /\ flowStarted = FALSE
    /\ sessionVerified = FALSE
    /\ controlsEnabled = FALSE
    /\ currentGroup = EmptyStr
    /\ refreshes = 0
    /\ mode = EmptyStr

IdleZoom ==
    /\ leftFeature = EmptyStr
    /\ zoomLastXid = EmptyStr
    /\ zoomRequests = <<>>
    /\ zoomOpened = EmptyStr
    /\ zoomFallback = FALSE

\* No session cookie, and no write accepted through a session yet.
NoCookie == [exp |-> -1, sig |-> <<"none", 0>>]
Unauthorized == [cookie |-> NoCookie, at |-> 0]

IdleClock ==
    /\ now = 0
    /\ issued = {}
    /\ authorizedBy = Unauthorized

IdlePage == IdleHelp /\ IdleZoom /\ IdleClock

----------------------------------------------------------------------------
(* SpecUF: the resolver on its own.  The decision list grows one item at a
   time, parent being the union-find after the items given so far; the
   resolver is called on any key at any moment. *)

Decision(a, b, v) == [group_id_a |-> a, group_id_b |-> b, verdict |-> v]

UFItems ==
    {Decision(a, b, VSame) : a \in Keys, b \in Keys}
    \cup {Decision(EmptyStr, KeyB, VSame), Decision(KeyB, KeyAB, VDifferent)}

InitUF ==
    /\ groupIds = Keys \ {KeyA}
    /\ decisions = <<>>
    /\ parent = createUnionFind(groupIds)
    /\ IdleLog /\ IdleGate /\ IdleSession
    /\ IdlePage

UFApplyDecision ==
    /\ Len(decisions) < MaxDecisions
    /\ \E item \in UFItems :
        /\ decisions' = Append(decisions, item)
        /\ parent' = mergeItemStep(parent, item)
    /\ UNCHANGED <<pageVars, logVars, gateVars, pc, features, groupIds, corrections, decisionsByPair,
                   groups, candidates, remaining, history, currentPair,
                   surfaced, seen>>

UFResolve ==
    /\ \E k \in Keys : parent' = resolveCall(parent, k).parent
    /\ UNCHANGED <<pageVars, logVars, gateVars, pc, features, groupIds, corrections, decisions,
                   decisionsByPair, groups, candidates, remaining, history,
                   currentPair, surfaced, seen>>

NextUF == UFApplyDecision \/ UFResolve

SpecUF == InitUF /\ [][NextUF]_vars

\* C1: whatever the order of the decisions in the list, the resolver built from
\* the list gives every key the canonical key it has in the resolver built in
\* the order the decisions arrived.
C1_OrderIndependent ==
    \A f \in ListOrders(Len(decisions)) :
        LET shuffled == buildMergeResolver(groupIds, Permuted(decisions, f))
        IN  \A k \in Keys :
                resolveGroupId(shuffled, k) = resolveGroupId(parent, k)

C1_Witness ==
    /\ Len(decisions) >= 2
    /\ WellFormedSame(decisions[1]) /\ WellFormedSame(decisions[2])
    /\ SameEdges(<<decisions[1]>>) # SameEdges(<<decisions[2]>>)
    /\ \A k \in Keys : ClassOf(decisions, k) = Keys

\* C3: after any sequence of unions every key resolves to one canonical key,
\* which is a root and resolves to itself, and a resolution changes the
\* canonical key of no key, so resolving again gives the same answer.
C3_PartitionStable ==
    \A k \in Keys :
        LET f1 == resolveCall(parent, k)
        IN  /\ f1.root \in DOMAIN f1.parent
            /\ f1.parent[f1.root] = f1.root
            /\ resolveCall(f1.parent, f1.root).root = f1.root
            /\ \A j \in Keys :
                resolveCall(f1.parent, j).root = resolveCall(parent, j).root

C3_Witness ==
    \E k \in DOMAIN parent :
        /\ parent[k] # k
        /\ parent[parent[k]] # parent[k]

\* C4: uniting two classes makes the lexicographically smaller root the
\* representative whichever key is passed first, and after any sequence of
\* "same" decisions every key resolves to the smallest key of its class.
C4_SmallestKeyWins ==
    /\ \A k \in Keys : resolveGroupId(parent, k) = LexMin(ClassOf(decisions, k))
    /\ \A a, b \in Keys :
        LET ra == resolveGroupId(parent, a)
            rb == resolveGroupId(parent, b)
            m == IF StrLess(ra, rb) THEN ra ELSE rb
        IN  /\ resolveGroupId(union(parent, a, b), a) = m
            /\ resolveGroupId(union(parent, a, b), b) = m
            /\ resolveGroupId(union(parent, b, a), a) = m
            /\ resolveGroupId(union(parent, b, a), b) = m

C4_Witness ==
    /\ \E i \in 1..Len(decisions) :
        /\ WellFormedSame(decisions[i])
        /\ StrLess(decisions[i].group_id_b, decisions[i].group_id_a)
    /\ \A k \in Keys : resolveGroupId(parent, k) = LexMin(Keys)
    /\ Cardinality(Keys) >= 3

----------------------------------------------------------------------------
(* SpecGateway: the two write endpoints on their own, under every server
   configuration, fed with well-formed and ill-formed requests. *)

Envs == [bypass : BOOLEAN, secretKey : BOOLEAN, sessionSecret : BOOLEAN]

Tokens == {"none", "good", "bad"}
Cookies == {"none", "malformed", "expired", "forged", "valid"}

\* "", "a", " b", "b"
PaddedB == <<32, 98>>
RawGroupIds == {EmptyStr, KeyA, PaddedB, KeyB}

\* "same", "different", absent, " SAME", "x"
RawMergeVerdicts == {VSame, VDifferent, EmptyStr, <<32, 83, 65, 77, 69>>, <<120>>}

BadJson == [json |-> FALSE]

\* The requests are not the full product of the fields: every body is sent
\* with three credentials, and one acceptable body with every credential.
MergeBodies ==
    {[group_id_a |-> a, group_id_b |-> b, verdict |-> VSame] :
        a \in RawGroupIds, b \in {KeyA, KeyB}}
    \cup {[group_id_a |-> KeyA, group_id_b |-> EmptyStr, verdict |-> VSame]}
    \cup {[group_id_a |-> KeyB, group_id_b |-> KeyA, verdict |-> v] :
        v \in RawMergeVerdicts}

Credentials ==
    {[token |-> "good", cookie |-> "none"], [token |-> "none", cookie |-> "none"],
     [token |-> "none", cookie |-> "valid"]}

AllCredentials == [token : Tokens, cookie : Cookies]

MergeRequest(body, cred) ==
    [json |-> TRUE, group_id_a |-> body.group_id_a, group_id_b |-> body.group_id_b,
     verdict |-> body.verdict, token |-> cred.token, cookie |-> cred.cookie]

MergeRequests ==
    {MergeRequest(body, cred) : body \in MergeBodies, cred \in Credentials}
    \cup {MergeRequest([group_id_a |-> KeyB, group_id_b |-> KeyA, verdict |-> v], cred) :
            v \in {VSame, VDifferent}, cred \in AllCredentials}
    \cup {BadJson}

\* "ok", "wrong", "flag", absent, "x"
RawCorrectionVerdicts == {VOk, VWrong, VFlag, EmptyStr, <<120>>}

RawCoordinates ==
    {<<Null, Null>>, <<Num(1), Num(1)>>, <<Num(1), Null>>, <<Num(100), Num(1)>>,
     <<Num(1), Num(-181)>>, <<NaNValue, Num(1)>>}

CorrectionBodies ==
    {[xid |-> Xid1, lat |-> c[1], lon |-> c[2], verdict |-> v, email |-> "none"] :
        c \in RawCoordinates, v \in RawCorrectionVerdicts}
    \cup {[xid |-> EmptyStr, lat |-> Num(1), lon |-> Num(1), verdict |-> VWrong,
           email |-> "none"],
          [xid |-> Xid1, lat |-> Num(1), lon |-> Num(1), verdict |-> VWrong,
           email |-> "invalid"]}

CorrectionRequest(body, cred) ==
    [json |-> TRUE, xid |-> body.xid, lat |-> body.lat, lon |-> body.lon,
     verdict |-> body.verdict, email |-> body.email,
     token |-> cred.token, cookie |-> cred.cookie]

CorrectionRequests ==
    {CorrectionRequest(body, cred) : body \in CorrectionBodies, cred \in Credentials}
    \cup {CorrectionRequest([xid |-> Xid1, lat |-> Null, lon |-> Null,
                             verdict |-> VOk, email |-> "none"], cred) :
            cred \in AllCredentials}
    \cup {BadJson}

InitGateway ==
    /\ mergeLog = <<>>
    /\ corrLog = <<>>
    /\ logStates = {<<0, 0>>}
    /\ env \in Envs
    /\ response = NoResponse
    /\ IdleResolver /\ IdleSession
    /\ IdlePage

GWPostMerge ==
    /\ \E req \in MergeRequests :
        LET out == mergesHandlePost(mergeLog, req, env)
        IN  /\ Len(out.log) + Len(corrLog) <= MaxLogRows
            /\ mergeLog' = out.log
            /\ response' = [status |-> out.status, detail |-> out.detail]
    /\ UNCHANGED <<pageVars, corrLog, logStates, env, sessVars>>

GWPostCorrection ==
    /\ \E req \in CorrectionRequests :
        LET out == correctionsHandlePost(corrLog, req, env)
        IN  /\ Len(mergeLog) + Len(out.log) <= MaxLogRows
            /\ corrLog' = out.log
            /\ response' = [status |-> out.status, detail |-> out.detail]
    /\ UNCHANGED <<pageVars, mergeLog, logStates, env, sessVars>>

NextGateway == GWPostMerge \/ GWPostCorrection

SpecGateway == InitGateway /\ [][NextGateway]_vars

\* What the gateway is required to refuse, read off the request alone.
MergeFailsValidation(req) ==
    \/ ~req.json
    \/ Trim(req.group_id_a) = EmptyStr
    \/ Trim(req.group_id_b) = EmptyStr
    \/ Trim(req.group_id_a) = Trim(req.group_id_b)
    \/ LowerCase(Trim(req.verdict)) \notin {VSame, VDifferent, EmptyStr}

CorrectionFailsValidation(req) ==
    \/ ~req.json
    \/ Trim(req.xid) = EmptyStr
    \/ LowerCase(Trim(req.verdict)) \notin {VOk, VWrong, VFlag, EmptyStr}
    \/ (req.lat = Null) # (req.lon = Null)
    \/ LowerCase(Trim(req.verdict)) = VOk /\ req.lat # Null
    \/ LowerCase(Trim(req.verdict)) = VWrong /\ req.lat = Null
    \/ req.lat.kind = "nan" \/ req.lon.kind = "nan"
    \/ req.lat.kind = "num" /\ (req.lat.v < -90 \/ req.lat.v > 90)
    \/ req.lon.kind = "num" /\ (req.lon.v < -180 \/ req.lon.v > 180)
    \/ req.email = "invalid"

\* Neither a token siteverify accepts nor an unexpired, correctly signed
\* session cookie, the gate being switched on (TURNSTILE_BYPASS unset).
LacksAuthorization(req) ==
    /\ ~env.bypass
    /\ req.json => (req.token # "good" /\ req.cookie # "valid")

----------------------------------------------------------------------------
(* Spec: one duplicate-review session (photo-meta.js) bootstrapping, filing
   decisions and reloading, while other clients append merge decisions and
   corrections through the write endpoints.  The server runs with Turnstile
   switched on. *)

\* The resolver's parent Map after the calls resolveGroupId(ids[1]), ...
RECURSIVE resolveAll(_, _)
resolveAll(p, ids) ==
    IF ids = <<>> THEN p
    ELSE resolveAll(resolveCall(p, Head(ids)).parent, Tail(ids))

\* The identifiers buildDecisionMap, applyCorrections and buildGroups look
\* up, in the order of the calls.
RECURSIVE decisionLookups(_)
decisionLookups(decs) ==
    IF decs = <<>> THEN <<>>
    ELSE LET a == Trim(Head(decs).group_id_a)
             b == Trim(Head(decs).group_id_b)
         IN  (IF a = EmptyStr \/ b = EmptyStr THEN <<>> ELSE <<a, b>>)
             \o decisionLookups(Tail(decs))

correctionLookups(items, byXid) ==
    [n \in 1..Len(items) |-> correctionBaseGroup(items[n], byXid)]

featureLookups(feats) == [i \in 1..Len(feats) |-> featureGroupKey(feats[i])]

\* pickNext: the outcomes of drawing the next pair at random.
removeAt(q, idx) == [n \in 1..(Len(q) - 1) |-> IF n < idx THEN q[n] ELSE q[n + 1]]

\* pickNext: the pool is refilled when it is empty, a pair at a random index
\* is taken out of it, and the pair on screen goes onto the history.
pickNextRefillsAlways(cands, rem, hist, cur) ==
    IF cands = <<>>
    THEN {[remaining |-> <<>>, history |-> hist, currentPair |-> NoPair]}
    ELSE {[remaining |-> removeAt(cands, idx),
           history |-> IF cur # NoPair THEN Append(hist, cur) ELSE hist,
           currentPair |-> cands[idx]] : idx \in 1..Len(cands)}

pickNext(cands, rem, hist, cur) ==
    LET pool == IF rem = <<>> THEN cands ELSE rem
    IN  IF pool = <<>>
        THEN {[remaining |-> <<>>, history |-> hist, currentPair |-> NoPair]}
        ELSE {[remaining |-> removeAt(pool, idx),
               history |-> IF cur # NoPair THEN Append(hist, cur) ELSE hist,
               currentPair |-> pool[idx]] : idx \in 1..Len(pool)}

\* pickPrev: the last pair of the history comes back on screen and the pair
\* on screen goes back into the pool.
pickPrev(rem, hist, cur) ==
    IF hist = <<>> THEN [remaining |-> rem, history |-> hist, currentPair |-> cur]
    ELSE [remaining |-> IF cur # NoPair THEN Append(rem, cur) ELSE rem,
          history |-> SubSeq(hist, 1, Len(hist) - 1),
          currentPair |-> hist[Len(hist)]]

\* What other clients send: a decision on each pair of series, in either
\* verdict, some with the larger identifier first, and one with a token
\* Turnstile refuses; a correction with a position for records 1 and 4 and a
\* confirmation for record 2.
GoodToken == [token |-> "good", cookie |-> "none"]
BadToken == [token |-> "bad", cookie |-> "none"]

WriterMergeRequests ==
    {MergeRequest([group_id_a |-> x[1], group_id_b |-> x[2], verdict |-> v], GoodToken) :
        x \in {<<KeyB, KeyAB>>, <<KeyAB, KeyA>>, <<KeyA, KeyB>>}, v \in {VSame, VDifferent}}
    \cup {MergeRequest([group_id_a |-> KeyA, group_id_b |-> KeyB, verdict |-> VSame], BadToken)}

WriterCorrectionRequests ==
    {CorrectionRequest([xid |-> Xid1, lat |-> Num(2), lon |-> Num(2),
                        verdict |-> VWrong, email |-> "none"], GoodToken),
     CorrectionRequest([xid |-> Xid4, lat |-> Num(1), lon |-> Num(1),
                        verdict |-> VWrong, email |-> "none"], GoodToken),
     CorrectionRequest([xid |-> Xid2, lat |-> Null, lon |-> Null,
                        verdict |-> VOk, email |-> "none"], GoodToken)}

Init ==
    /\ IdleLog
    /\ IdleGate
    /\ IdleResolver
    /\ IdleSession
    /\ IdlePage

\* bootstrap up to the dataset: a failed fetch of /data/photos.geojson
\* rejects bootstrap(), and its catch shows "Nepodarilo se nacist data."
\* (/api/config only carries the Turnstile settings and falls back to {}.)
BootFetchPhotosSwallowed ==
    /\ pc = "idle"
    /\ \E ok \in BOOLEAN :
        /\ features' = IF ok THEN Photos ELSE <<>>
        /\ seen' = [seen EXCEPT !.photosOk = ok]
    /\ pc' = "photos"
    /\ UNCHANGED <<pageVars, logVars, gateVars, groupIds, corrections, decisions, parent,
                   decisionsByPair, groups, candidates, remaining, history,
                   currentPair, surfaced>>

BootFetchPhotos ==
    /\ pc = "idle"
    /\ \/ /\ features' = Photos
          /\ pc' = "photos"
          /\ seen' = [seen EXCEPT !.photosOk = TRUE]
          /\ UNCHANGED surfaced
       \/ /\ pc' = "failed"
          /\ surfaced' = TRUE
          /\ seen' = [seen EXCEPT !.photosOk = FALSE]
          /\ UNCHANGED features
    /\ UNCHANGED <<pageVars, logVars, gateVars, groupIds, corrections, decisions, parent,
                   decisionsByPair, groups, candidates, remaining, history,
                   currentPair>>

\* bootstrap from the merges fetch to buildDecisionMap.  A failed fetch is
\* caught and stands for { items: [] }.
BootFetchMerges ==
    /\ pc = "photos"
    /\ \E ok \in BOOLEAN :
        \E items \in (IF ok THEN ResultOrders(mergesHandleGet(mergeLog)) ELSE {<<>>}) :
            LET ids == groupIdSet(features)
                built == buildMergeResolver(ids, items)
            IN  /\ decisions' = items
                /\ groupIds' = ids
                /\ decisionsByPair' = buildDecisionMap(items, built)
                /\ parent' = resolveAll(built, decisionLookups(items))
                /\ seen' = [seen EXCEPT !.mergesOk = ok, !.mergesAt = Len(mergeLog)]
    /\ pc' = "merges"
    /\ UNCHANGED <<pageVars, logVars, gateVars, features, corrections, groups, candidates,
                   remaining, history, currentPair, surfaced>>

\* bootstrap from the corrections fetch to pickNext.  A failed fetch is
\* caught and stands for { items: [] }.
BootFetchCorrectionsRefetch ==
    /\ pc = "merges"
    /\ \E ok \in BOOLEAN :
        \E items \in (IF ok THEN ResultOrders(correctionsHandleGet(corrLog)) ELSE {<<>>}) :
          \E again \in ResultOrders(mergesHandleGet(mergeLog)) :
            LET byXid == groupIdByXidMap(features)
                built == buildMergeResolver(groupIds, again)
                applied == applyCorrections(features, items, byXid, built)
                rooted == rootedFeatures(applied, built)
                gs == buildGroups(rooted)
                cands == buildCandidates(gs, buildDecisionMap(again, built))
            IN  /\ corrections' = items
                /\ decisions' = again
                /\ decisionsByPair' = buildDecisionMap(again, built)
                /\ features' = rooted
                /\ groups' = gs
                /\ candidates' = cands
                /\ parent' = resolveAll(built, featureLookups(features))
                /\ \E next \in pickNext(cands, cands, history, currentPair) :
                    /\ remaining' = next.remaining
                    /\ history' = next.history
                    /\ currentPair' = next.currentPair
                /\ seen' = [seen EXCEPT !.corrOk = ok, !.corrAt = Len(corrLog)]
    /\ pc' = "ready"
    /\ UNCHANGED <<pageVars, logVars, gateVars, groupIds, surfaced>>

BootFetchCorrections ==
    /\ pc = "merges"
    /\ \E ok \in BOOLEAN :
        \E items \in (IF ok THEN ResultOrders(correctionsHandleGet(corrLog)) ELSE {<<>>}) :
            LET byXid == groupIdByXidMap(features)
                applied == applyCorrections(features, items, byXid, parent)
                rooted == rootedFeatures(applied, parent)
                gs == buildGroups(rooted)
                cands == buildCandidates(gs, decisionsByPair)
            IN  /\ corrections' = items
                /\ features' = rooted
                /\ groups' = gs
                /\ candidates' = cands
                /\ parent' = resolveAll(parent,
                                correctionLookups(items, byXid)
                                \o featureLookups(features) \o featureLookups(features))
                /\ \E next \in pickNext(cands, cands, history, currentPair) :
                    /\ remaining' = next.remaining
                    /\ history' = next.history
                    /\ currentPair' = next.currentPair
                /\ seen' = [seen EXCEPT !.corrOk = ok, !.corrAt = Len(corrLog)]
    /\ pc' = "ready"
    /\ UNCHANGED <<pageVars, logVars, gateVars, groupIds, decisions, decisionsByPair, surfaced>>

\* submitDecision with the pair on screen: the POST, and on success the
\* push onto state.decisions and rebuildPairs.
Submit ==
    /\ pc = "ready"
    /\ currentPair # NoPair
    /\ \E verdict \in {VSame, VDifferent}, cred \in {GoodToken, BadToken} :
        LET payload == [group_id_a |-> currentPair.groupA,
                        group_id_b |-> currentPair.groupB, verdict |-> verdict]
            out == mergesHandlePost(mergeLog, MergeRequest(payload, cred), env)
            decs == Append(decisions, payload)
            built == buildMergeResolver(groupIds, decs)
            dmap == buildDecisionMap(decs, built)
            rooted == rootedFeatures(features, built)
            gs == buildGroups(rooted)
            cands == buildCandidates(gs, dmap)
        IN  /\ Len(out.log) + Len(corrLog) <= MaxLogRows
            /\ mergeLog' = out.log
            /\ logStates' = logStates \cup {<<Len(out.log), Len(corrLog)>>}
            /\ response' = [status |-> out.status, detail |-> out.detail]
            /\ IF out.status = 200
               THEN /\ decisions' = decs
                    /\ parent' = resolveAll(built,
                                    decisionLookups(decs) \o featureLookups(features))
                    /\ decisionsByPair' = dmap
                    /\ features' = rooted
                    /\ groups' = gs
                    /\ candidates' = cands
                    /\ \E next \in pickNext(cands, cands, <<>>, NoPair) :
                        /\ remaining' = next.remaining
                        /\ history' = next.history
                        /\ currentPair' = next.currentPair
                    /\ seen' = [seen EXCEPT !.local = @ + 1]
               ELSE UNCHANGED <<decisions, parent, decisionsByPair, features, groups,
                                candidates, remaining, history, currentPair, seen>>
    /\ UNCHANGED <<pageVars, corrLog, env, pc, groupIds, corrections, surfaced>>

\* The page is loaded again: every variable of the script starts over.
Reload ==
    /\ pc # "idle"
    /\ pc' = "idle"
    /\ features' = <<>>
    /\ corrections' = <<>>
    /\ groupIds' = {}
    /\ decisions' = <<>>
    /\ parent' = <<>>
    /\ decisionsByPair' = <<>>
    /\ groups' = <<>>
    /\ candidates' = <<>>
    /\ remaining' = <<>>
    /\ history' = <<>>
    /\ currentPair' = NoPair
    /\ surfaced' = FALSE
    /\ seen' = NothingSeen
    /\ UNCHANGED <<pageVars, logVars, gateVars>>

\* Another client posts a merge decision.
WriterPostMerge ==
    /\ \E req \in WriterMergeRequests :
        LET out == mergesHandlePost(mergeLog, req, env)
        IN  /\ Len(out.log) + Len(corrLog) <= MaxLogRows
            /\ mergeLog' = out.log
            /\ logStates' = logStates \cup {<<Len(out.log), Len(corrLog)>>}
            /\ response' = [status |-> out.status, detail |-> out.detail]
    /\ UNCHANGED <<pageVars, corrLog, env, sessVars>>

\* Another client posts a correction.
WriterPostCorrection ==
    /\ \E req \in WriterCorrectionRequests :
        LET out == correctionsHandlePost(corrLog, req, env)
        IN  /\ Len(mergeLog) + Len(out.log) <= MaxLogRows
            /\ corrLog' = out.log
            /\ logStates' = logStates \cup {<<Len(mergeLog), Len(out.log)>>}
            /\ response' = [status |-> out.status, detail |-> out.detail]
    /\ UNCHANGED <<pageVars, mergeLog, env, sessVars>>

Next ==
    \/ BootFetchPhotos
    \/ BootFetchMerges
    \/ BootFetchCorrections
    \/ Submit
    \/ Reload
    \/ WriterPostMerge
    \/ WriterPostCorrection

Spec == Init /\ [][Next]_vars

----------------------------------------------------------------------------
(* What a session has read, and what the log says, stated on the log. *)

SeenMerges == SubSeq(mergeLog, 1, seen.mergesAt)
SeenCorrections == SubSeq(corrLog, 1, seen.corrAt)

MergesRead == pc \in {"merges", "ready"} /\ seen.mergesOk

SamePair(r, q) == r.group_id_a = q.group_id_a /\ r.group_id_b = q.group_id_b

\* Row i is the most recent of the first n rows for its pair.
MostRecent(i, n) == \A j \in (i + 1)..n : ~SamePair(mergeLog[j], mergeLog[i])

AnyOrder(S) == CHOOSE q \in ResultOrders(S) : TRUE

\* The key that the "same" decisions in force among the first n rows give
\* the series k: the smallest key linked to k.
Canonical(n, k) ==
    LexMin(ClassOf(AnyOrder({mergeLog[i] : i \in {j \in 1..n : MostRecent(j, n)}}), k))

Resolved(k) == resolveGroupId(parent, k)

PairOf(a, b) == {a, b}

KnownDecisions ==
    (IF seen.mergesOk THEN {SeenMerges[i] : i \in 1..Len(SeenMerges)} ELSE {})
    \cup {decisions[n] : n \in 1..Len(decisions)}

Offered ==
    {candidates[n] : n \in 1..Len(candidates)}
    \cup {remaining[n] : n \in 1..Len(remaining)}
    \cup (IF currentPair = NoPair THEN {} ELSE {currentPair})

Members(g) == {g.items[n] : n \in 1..Len(g.items)}

\* C7: a session that derives its state from the log (whatever order the
\* read returns the rows in, whoever appended them) gives every record the
\* key the log defines for its series, and groups exactly the records with
\* equal keys; so all sessions deriving from one log agree.
C7_SameLogSameGrouping ==
    (pc = "ready" /\ seen.mergesOk /\ seen.local = 0) =>
        /\ \A i \in 1..Len(features) :
            features[i].group_root = Canonical(seen.mergesAt, featureGroupKey(Photos[i]))
        /\ {Members(groups[n]) : n \in 1..Len(groups)}
            = {{j \in 1..Len(Photos) :
                    Canonical(seen.mergesAt, featureGroupKey(Photos[j]))
                        = Canonical(seen.mergesAt, featureGroupKey(Photos[i]))} :
                i \in 1..Len(Photos)}
        /\ \A n \in 1..Len(groups) : \A i \in Members(groups[n]) :
            groups[n].id = Canonical(seen.mergesAt, featureGroupKey(Photos[i]))

\* The log holds two decisions and is read whole; every series is merged
\* into one group.
C7_Witness ==
    /\ pc = "ready" /\ seen.mergesOk /\ seen.local = 0
    /\ seen.mergesAt = Len(mergeLog)
    /\ Len(mergeLog) >= 2
    /\ Len(groups) = 1

\* The state derived from the merge items ms and the correction items cs.
DeriveFrom(ms, cs) ==
    LET built == buildMergeResolver(groupIdSet(Photos), ms)
        applied == applyCorrections(Photos, cs, groupIdByXidMap(Photos), built)
        rooted == rootedFeatures(applied, built)
    IN  [features |-> rooted, groups |-> buildGroups(rooted)]

\* The states derivable from the first m merge rows and first c correction
\* rows.
DerivableFrom(m, c) ==
    {DeriveFrom(ms, cs) :
        ms \in ResultOrders(mergesHandleGet(SubSeq(mergeLog, 1, m))),
        cs \in ResultOrders(correctionsHandleGet(SubSeq(corrLog, 1, c)))}

Derived == [features |-> features, groups |-> groups]

BothRead == pc = "ready" /\ seen.mergesOk /\ seen.corrOk /\ seen.local = 0

\* C8 as stated: what a session derives in its bootstrap is what some single
\* state of the log (both tables at one moment) yields.
C8_OneSnapshot ==
    BothRead => \E st \in logStates : Derived \in DerivableFrom(st[1], st[2])

\* C8, amended: the resolver and the partition come from one state of the
\* merge table, the coordinates from one state of the corrections table read
\* later; the derived state is what those two reads yield together.
C8_TwoReads ==
    BothRead =>
        /\ Derived \in DerivableFrom(seen.mergesAt, seen.corrAt)
        /\ \E st \in logStates, later \in logStates :
            /\ st[1] = seen.mergesAt
            /\ later[2] = seen.corrAt
            /\ st[1] <= later[1] /\ st[2] <= later[2]

\* Other clients appended between the two reads, and the derived state is
\* the state of no single moment of the log.
C8_Witness ==
    /\ BothRead
    /\ seen.mergesAt < Len(mergeLog)
    /\ seen.corrAt > 0
    /\ \A st \in logStates : Derived \notin DerivableFrom(st[1], st[2])

LogReadFailed ==
    \/ pc \in {"merges", "ready"} /\ ~seen.mergesOk
    \/ pc = "ready" /\ ~seen.corrOk

----------------------------------------------------------------------------
(* SpecProjector: applyCorrections and buildGroups on their own.  The
   resolver is built from one of a few decision lists, a list of correction
   items (one per xid, as the corrections read returns them) is collected,
   then applied to the dataset, and the groups are built. *)

ProjectorDecisionLists ==
    {<<>>,
     <<Decision(KeyB, KeyAB, VSame)>>,
     <<Decision(KeyAB, KeyA, VSame)>>,
     <<Decision(KeyB, KeyAB, VSame), Decision(KeyAB, KeyA, VSame)>>,
     <<Decision(KeyA, KeyB, VDifferent)>>}

\* Items with a position, (1,1) or (2,2), and items without; record 9 is
\* not in the dataset.
ProjectorItems ==
    {[xid |-> x, verdict |-> VWrong, lat |-> Num(c), lon |-> Num(c), has_coordinates |-> 1] :
        x \in {Xid1, Xid2, Xid3, Xid4, Xid9}, c \in {1, 2}}
    \cup {[xid |-> x, verdict |-> VOk, lat |-> Null, lon |-> Null, has_coordinates |-> 0] :
        x \in {Xid1, Xid2, Xid3, Xid4, Xid9}}

InitProjector ==
    /\ IdleLog
    /\ IdleGate
    /\ IdleSession
    /\ groupIds = {}
    /\ decisions \in ProjectorDecisionLists
    /\ parent = <<>>
    /\ IdlePage

ProjLoad ==
    /\ pc = "idle"
    /\ pc' = "collect"
    /\ features' = Photos
    /\ groupIds' = groupIdSet(Photos)
    /\ parent' = buildMergeResolver(groupIdSet(Photos), decisions)
    /\ UNCHANGED <<pageVars, logVars, gateVars, corrections, decisions, decisionsByPair, groups,
                   candidates, remaining, history, currentPair, surfaced, seen>>

ProjAddCorrection ==
    /\ pc = "collect"
    /\ Len(corrections) < MaxCorrections
    /\ \E item \in ProjectorItems :
        /\ \A n \in 1..Len(corrections) : corrections[n].xid # item.xid
        /\ corrections' = Append(corrections, item)
    /\ UNCHANGED <<pageVars, logVars, gateVars, pc, features, groupIds, decisions, parent,
                   decisionsByPair, groups, candidates, remaining, history,
                   currentPair, surfaced, seen>>

ProjApply ==
    /\ pc = "collect"
    /\ pc' = "applied"
    /\ features' = applyCorrections(features, corrections, groupIdByXidMap(features), parent)
    /\ parent' = resolveAll(parent,
                    correctionLookups(corrections, groupIdByXidMap(features))
                    \o featureLookups(features))
    /\ UNCHANGED <<pageVars, logVars, gateVars, groupIds, corrections, decisions,
                   decisionsByPair, groups, candidates, remaining, history,
                   currentPair, surfaced, seen>>

ProjBuildGroups ==
    /\ pc = "applied"
    /\ pc' = "grouped"
    /\ features' = rootedFeatures(features, parent)
    /\ groups' = buildGroups(rootedFeatures(features, parent))
    /\ parent' = resolveAll(parent, featureLookups(features))
    /\ UNCHANGED <<pageVars, logVars, gateVars, groupIds, corrections, decisions,
                   decisionsByPair, candidates, remaining, history, currentPair,
                   surfaced, seen>>

NextProjector == ProjLoad \/ ProjAddCorrection \/ ProjApply \/ ProjBuildGroups

SpecProjector == InitProjector /\ [][NextProjector]_vars

\* The series a correction item is about: that of the record it names, or
\* the xid itself when no record carries it.
BaseGroupOf(xid) ==
    IF \E i \in 1..Len(Photos) : Photos[i].id = xid
    THEN Photos[CHOOSE i \in 1..Len(Photos) : Photos[i].id = xid].group_id
    ELSE xid

\* The canonical key of a series under the projector's decision list.
ProjCanonical(k) == LexMin(ClassOf(decisions, k))

\* The items of the list that resolve to the group k, by position.
ItemsOf(k) ==
    {n \in 1..Len(corrections) : ProjCanonical(BaseGroupOf(corrections[n].xid)) = k}

LastOf(S) == CHOOSE n \in S : \A m \in S : m <= n

\* C10: when the last item of the list that resolves to a group carries a
\* position, every record of the group has that position and is flagged
\* corrected once the list is applied, and the group built from them shows
\* it; an earlier item for the same group has no effect.
C10_LastCorrectionWins ==
    pc \in {"applied", "grouped"} =>
        \A i \in 1..Len(Photos) :
            LET k == ProjCanonical(featureGroupKey(Photos[i]))
                last == corrections[LastOf(ItemsOf(k))]
            IN  (ItemsOf(k) # {} /\ last.has_coordinates = 1) =>
                    /\ features[i].lat = last.lat
                    /\ features[i].lon = last.lon
                    /\ features[i].corrected = <<last.lat, last.lon>>
                    /\ pc = "grouped" =>
                        \A n \in 1..Len(groups) :
                            i \in Members(groups[n]) =>
                                /\ groups[n].lat = last.lat
                                /\ groups[n].lon = last.lon

\* Two items with different positions, filed against different records of
\* one merged group, have been applied; a third record of the group, named
\* by neither, sits at the position of the second.
C10_Witness ==
    /\ pc = "grouped"
    /\ Len(corrections) = 2
    /\ corrections[1].has_coordinates = 1 /\ corrections[2].has_coordinates = 1
    /\ corrections[1].lat # corrections[2].lat
    /\ ProjCanonical(BaseGroupOf(corrections[1].xid))
        = ProjCanonical(BaseGroupOf(corrections[2].xid))
    /\ \E i \in 1..Len(features) :
        /\ features[i].id \notin {corrections[1].xid, corrections[2].xid}
        /\ features[i].group_root = ProjCanonical(BaseGroupOf(corrections[2].xid))
        /\ features[i].lat = corrections[2].lat
        /\ features[i].corrected # <<>>

\* The items of the list that resolve to the group k and carry a position.
PositionedItemsOf(k) == {n \in ItemsOf(k) : corrections[n].has_coordinates = 1}

\* C11: once the list is applied, every record of a group that has items
\* with a position has the position of the last of them, whatever items
\* without a position follow it in the list.
C11_LastPositionedCorrectionWins ==
    pc \in {"applied", "grouped"} =>
        \A i \in 1..Len(Photos) :
            LET k == ProjCanonical(featureGroupKey(Photos[i]))
                last == corrections[LastOf(PositionedItemsOf(k))]
            IN  PositionedItemsOf(k) # {} =>
                    /\ features[i].lat = last.lat
                    /\ features[i].lon = last.lon

----------------------------------------------------------------------------
(* The write endpoints, claim by claim. *)

\* C12 as stated: every stored correction either has a position and the
\* verdict "wrong", or has no position and the verdict "ok" or "flag".
C12_PositionIffWrong ==
    \A i \in 1..Len(corrLog) :
        \/ corrLog[i].has_coordinates = 1 /\ corrLog[i].verdict = VWrong
        \/ corrLog[i].has_coordinates = 0 /\ corrLog[i].verdict \in {VOk, VFlag}

\* C13: every stored merge row has group_id_a before group_id_b, pairKey
\* gives one key for both orientations of it, and a session that has read
\* the row finds its decision under that key, whichever way round it asks.
C13_StoredPairOrdered ==
    /\ \A i \in 1..Len(mergeLog) :
        LET a == mergeLog[i].group_id_a
            b == mergeLog[i].group_id_b
        IN  /\ StrLess(a, b)
            /\ pairKey(a, b) = a \o Separator \o b
            /\ pairKey(b, a) = pairKey(a, b)
    /\ MergesRead =>
        \A i \in 1..seen.mergesAt :
            LET ra == Resolved(mergeLog[i].group_id_a)
                rb == Resolved(mergeLog[i].group_id_b)
            IN  ra # rb =>
                    /\ pairKey(ra, rb) \in DOMAIN decisionsByPair
                    /\ pairKey(rb, ra) \in DOMAIN decisionsByPair

\* The session filed a decision with the larger identifier first, and the
\* row stored for it has the two the other way round.
C13_Witness ==
    /\ pc = "ready" /\ seen.local > 0
    /\ Len(mergeLog) > 0
    /\ LET sent == decisions[Len(decisions)]
           row == mergeLog[Len(mergeLog)]
       IN  /\ StrLess(sent.group_id_b, sent.group_id_a)
           /\ row.group_id_a = sent.group_id_b
           /\ row.group_id_b = sent.group_id_a
           /\ pairKey(sent.group_id_a, sent.group_id_b) \in DOMAIN decisionsByPair

SentVerdict(req) == LowerCase(Trim(req.verdict))

\* C14 as stated: a merge request whose verdict is neither "same" nor
\* "different", an absent one included, is refused and appends nothing.
C14_UnrecognizedOrAbsentRefused ==
    \A req \in MergeRequests :
        (req.json /\ SentVerdict(req) \notin {VSame, VDifferent}) =>
            LET out == mergesHandlePost(mergeLog, req, env)
            IN  out.status # 200 /\ out.log = mergeLog

\* C14, amended: a verdict that is present and neither "same" nor
\* "different" is refused and appends nothing; an absent verdict stands for
\* "same", and the request is stored as a "same" row when its identifiers
\* and its credentials pass; every stored row says "same" or "different".
C14_UnrecognizedRefusedAbsentIsSame ==
    /\ \A req \in MergeRequests :
        req.json =>
            LET out == mergesHandlePost(mergeLog, req, env)
            IN  /\ SentVerdict(req) \notin {VSame, VDifferent, EmptyStr}
                    => (out.status # 200 /\ out.log = mergeLog)
                /\ (SentVerdict(req) = EmptyStr /\ ~MergeFailsValidation(req)
                    /\ (\/ hasValidSession(req.cookie, env)
                        \/ verifyTurnstile(req.token, env) = "ok"))
                    => /\ out.status = 200
                       /\ Len(out.log) = Len(mergeLog) + 1
                       /\ out.log[Len(out.log)].verdict = VSame
    /\ \A i \in 1..Len(mergeLog) : mergeLog[i].verdict \in {VSame, VDifferent}

\* A request with an unrecognized verdict has just been refused, with rows
\* already stored.
C14_Witness ==
    /\ response.status = 400
    /\ response.detail = "Neplatny typ rozhodnuti"
    /\ Len(mergeLog) > 0

\* C15: a merge request with an identifier that is empty once trimmed, or
\* with two identifiers equal once trimmed, is refused and appends nothing;
\* no stored row has an empty identifier or the same identifier twice.
C15_SelfMergeRefused ==
    /\ \A req \in MergeRequests :
        (req.json /\ (\/ Trim(req.group_id_a) = EmptyStr
                      \/ Trim(req.group_id_b) = EmptyStr
                      \/ Trim(req.group_id_a) = Trim(req.group_id_b))) =>
            LET out == mergesHandlePost(mergeLog, req, env)
            IN  out.status = 400 /\ out.log = mergeLog
    /\ \A i \in 1..Len(mergeLog) :
        /\ mergeLog[i].group_id_a # EmptyStr
        /\ mergeLog[i].group_id_b # EmptyStr
        /\ mergeLog[i].group_id_a # mergeLog[i].group_id_b

\* A request naming one group twice has just been refused, with rows
\* already stored.
C15_Witness ==
    /\ response.status = 400
    /\ response.detail = "Nelze sloucit stejnou skupinu"
    /\ Len(mergeLog) > 0

HasPosition(req) == req.lat # Null /\ req.lon # Null

\* C16: a correction with a position and verdict "ok", with verdict "wrong"
\* and no position, or with a latitude outside [-90, 90] or a longitude
\* outside [-180, 180] is refused and appends nothing; every stored position
\* lies within the ranges.
C16_ContradictoryOrOutOfRangeRefused ==
    /\ \A req \in CorrectionRequests :
        (req.json /\ (\/ SentVerdict(req) = VOk /\ HasPosition(req)
                      \/ SentVerdict(req) = VWrong /\ ~HasPosition(req)
                      \/ req.lat.kind = "num" /\ (req.lat.v < -90 \/ req.lat.v > 90)
                      \/ req.lon.kind = "num" /\ (req.lon.v < -180 \/ req.lon.v > 180))) =>
            LET out == correctionsHandlePost(corrLog, req, env)
            IN  out.status = 400 /\ out.log = corrLog
    /\ \A i \in 1..Len(corrLog) :
        corrLog[i].has_coordinates = 1 =>
            /\ corrLog[i].lat.kind = "num" /\ corrLog[i].lon.kind = "num"
            /\ corrLog[i].lat.v >= -90 /\ corrLog[i].lat.v <= 90
            /\ corrLog[i].lon.v >= -180 /\ corrLog[i].lon.v <= 180

\* A confirmation that came with a position has just been refused, a
\* correction with a position being stored already.
C16_Witness ==
    /\ response.status = 400
    /\ response.detail = "Potvrzeni OK nesmi obsahovat polohu"
    /\ \E i \in 1..Len(corrLog) : corrLog[i].has_coordinates = 1

----------------------------------------------------------------------------
(* SpecMap: the session is the map page (app.js), which bootstraps the way
   the duplicate-review page of Spec does, keeps no list of pairs, and lets
   the visitor file a position for any record; other clients write as in
   Spec. *)

\* bootstrap of app.js up to the dataset: /data/photos.geojson, on failure
\* /api/photos; when both fail bootstrap() rejects and its catch shows the
\* error.
MapFetchPhotos ==
    /\ pc = "idle"
    /\ \/ /\ features' = Photos
          /\ pc' = "mapPhotos"
          /\ seen' = [seen EXCEPT !.photosOk = TRUE]
          /\ UNCHANGED surfaced
       \/ /\ pc' = "failed"
          /\ surfaced' = TRUE
          /\ seen' = [seen EXCEPT !.photosOk = FALSE]
          /\ UNCHANGED features
    /\ UNCHANGED <<pageVars, logVars, gateVars, groupIds, corrections, decisions, parent,
                   decisionsByPair, groups, candidates, remaining, history,
                   currentPair>>

\* bootstrap of app.js from the merges fetch to buildMergeResolver; the
\* items and the group ids are locals of bootstrap.
MapFetchMerges ==
    /\ pc = "mapPhotos"
    /\ \E ok \in BOOLEAN :
        \E items \in (IF ok THEN ResultOrders(mergesHandleGet(mergeLog)) ELSE {<<>>}) :
            /\ parent' = buildMergeResolver(groupIdSet(features), items)
            /\ seen' = [seen EXCEPT !.mergesOk = ok, !.mergesAt = Len(mergeLog)]
    /\ pc' = "mapMerges"
    /\ UNCHANGED <<pageVars, logVars, gateVars, features, groupIds, corrections, decisions,
                   decisionsByPair, groups, candidates, remaining, history,
                   currentPair, surfaced>>

\* bootstrap of app.js from the corrections fetch to buildGroups.
MapFetchCorrections ==
    /\ pc = "mapMerges"
    /\ \E ok \in BOOLEAN :
        \E items \in (IF ok THEN ResultOrders(correctionsHandleGet(corrLog)) ELSE {<<>>}) :
            LET byXid == groupIdByXidMap(features)
                applied == applyCorrections(features, items, byXid, parent)
                rooted == rootedFeatures(applied, parent)
            IN  /\ corrections' = items
                /\ features' = rooted
                /\ groups' = buildGroups(rooted)
                /\ parent' = resolveAll(parent,
                                correctionLookups(items, byXid)
                                \o featureLookups(features) \o featureLookups(features))
                /\ seen' = [seen EXCEPT !.corrOk = ok, !.corrAt = Len(corrLog)]
    /\ pc' = "mapReady"
    /\ UNCHANGED <<pageVars, logVars, gateVars, groupIds, decisions, decisionsByPair,
                   candidates, remaining, history, currentPair, surfaced>>

\* onSubmit of app.js, the callback CorrectionUI runs after an accepted
\* correction: the group's own fields ...
patchedGroupStale(g, lat, lon) == g

patchedGroup(g, lat, lon) == [g EXCEPT !.lat = lat, !.lon = lon, !.primary = g.items[1]]

\* ... and the records it patches: those of the record's group.
patchTargets(gs, f) ==
    LET groupId == IF f.group_root # EmptyStr THEN f.group_root ELSE f.group_id
    IN  UNION {Members(gs[n]) : n \in {m \in 1..Len(gs) : gs[m].id = groupId}}

\* CorrectionUI.submit for the record on screen and the spot picked on the
\* map, here (2,2), then onSubmit.
MapSubmitCorrection ==
    /\ pc = "mapReady"
    /\ \E i \in 1..Len(features), c \in {2}, cred \in {GoodToken, BadToken} :
        LET body == [xid |-> features[i].id, lat |-> Num(c), lon |-> Num(c),
                     verdict |-> VWrong, email |-> "none"]
            out == correctionsHandlePost(corrLog, CorrectionRequest(body, cred), env)
            lat == Number(Num(c))
            lon == Number(Num(c))
            targets == patchTargets(groups, features[i])
            groupId == IF features[i].group_root # EmptyStr
                       THEN features[i].group_root ELSE features[i].group_id
        IN  /\ Len(mergeLog) + Len(out.log) <= MaxLogRows
            /\ corrLog' = out.log
            /\ logStates' = logStates \cup {<<Len(mergeLog), Len(out.log)>>}
            /\ response' = [status |-> out.status, detail |-> out.detail]
            /\ IF out.status = 200
               THEN /\ features' =
                        [j \in 1..Len(features) |->
                            IF j \in targets
                            THEN [features[j] EXCEPT !.lat = lat, !.lon = lon,
                                                     !.corrected = <<lat, lon>>]
                            ELSE features[j]]
                    /\ groups' =
                        [n \in 1..Len(groups) |->
                            IF groups[n].id = groupId
                            THEN patchedGroup(groups[n], lat, lon)
                            ELSE groups[n]]
                    /\ seen' = [seen EXCEPT !.local = @ + 1]
               ELSE UNCHANGED <<features, groups, seen>>
    /\ UNCHANGED <<pageVars, mergeLog, env, pc, groupIds, corrections, decisions, parent,
                   decisionsByPair, candidates, remaining, history, currentPair,
                   surfaced>>

NextMap ==
    \/ MapFetchPhotos
    \/ MapFetchMerges
    \/ MapFetchCorrections
    \/ MapSubmitCorrection
    \/ Reload
    \/ WriterPostMerge
    \/ WriterPostCorrection

SpecMap == Init /\ [][NextMap]_vars

----------------------------------------------------------------------------
(* Recomputation after a decision. *)

\* What a list of groups shows: per group its key, its records in order,
\* its primary record and its coordinate.
GroupView(gs) ==
    {[id |-> gs[n].id, items |-> gs[n].items, primary |-> gs[n].primary,
      lat |-> gs[n].lat, lon |-> gs[n].lon] : n \in 1..Len(gs)}

\* What fresh bootstraps from the log as it is now can show.
FreshViews ==
    {GroupView(d.groups) : d \in DerivableFrom(Len(mergeLog), Len(corrLog))}

SessionReady == pc \in {"ready", "mapReady"}

\* The session has had decisions accepted: merge decisions on the review
\* page, corrections on the map page.
DecisionsAccepted == SessionReady /\ seen.mergesOk /\ seen.corrOk /\ seen.local > 0

\* The log holds nothing but what the session read and what it filed.
OnlyOwnDecisionsSince ==
    /\ pc = "ready" =>
        (seen.mergesAt + seen.local = Len(mergeLog) /\ seen.corrAt = Len(corrLog))
    /\ pc = "mapReady" =>
        (seen.mergesAt = Len(mergeLog) /\ seen.corrAt + seen.local = Len(corrLog))

----------------------------------------------------------------------------
(* The groups, checked in SpecProjector. *)

KeyOf(i) == ProjCanonical(featureGroupKey(Photos[i]))

GroupsOf(i) == {n \in 1..Len(groups) : i \in Members(groups[n])}

\* C18: the groups built from the records partition them by canonical key:
\* every record is in exactly one group and once in its list, two records
\* share a group exactly when their series resolve to one key, every record
\* and its group carry that key, and there are as many groups as keys.
C18_GroupsPartitionByKey ==
    pc = "grouped" =>
        /\ \A i \in 1..Len(Photos) :
            /\ Cardinality(GroupsOf(i)) = 1
            /\ features[i].group_root = KeyOf(i)
            /\ \A n \in GroupsOf(i) : groups[n].id = KeyOf(i)
        /\ \A i, j \in 1..Len(Photos) :
            (GroupsOf(i) = GroupsOf(j)) <=> (KeyOf(i) = KeyOf(j))
        /\ \A n \in 1..Len(groups) :
            Len(groups[n].items) = Cardinality(Members(groups[n]))
        /\ Len(groups) = Cardinality({KeyOf(i) : i \in 1..Len(Photos)})

\* Three series, two of them merged by one "same" decision: two groups.
C18_Witness ==
    /\ pc = "grouped"
    /\ decisions = <<Decision(KeyB, KeyAB, VSame)>>
    /\ Len(groups) = 2
    /\ \E n \in 1..Len(groups) : Members(groups[n]) = {1, 2}

----------------------------------------------------------------------------
(* The order within a group: buildGroups applied to one series whose records
   arrive in any order, with signatures absent, distinct or shared. *)

SortIds == SubSeq(<<Xid1, Xid2, Xid3, Xid4, Xid9>>, 1, MaxItems)

SortSignatures == {EmptyStr, <<112>>, <<113>>}

SortChoices(n) ==
    {f \in [1..n -> 1..MaxItems] : \A i, j \in 1..n : f[i] = f[j] => i = j}

SortOrders(n) == {f \in [1..n -> 1..n] : \A i, j \in 1..n : f[i] = f[j] => i = j}

\* Record k of the series lies at the coordinate (k, k).
SortInputs ==
    UNION {{[i \in 1..n |-> Feature(SortIds[f[i]], KeyA, sig[i], f[i], f[i])] :
                f \in SortChoices(n), sig \in [1..n -> SortSignatures]} :
            n \in 1..MaxItems}

InitSort ==
    /\ IdleLog
    /\ IdleGate
    /\ IdleResolver
    /\ pc = "idle"
    /\ features \in SortInputs
    /\ corrections = <<>>
    /\ decisionsByPair = <<>>
    /\ groups = <<>>
    /\ candidates = <<>>
    /\ remaining = <<>>
    /\ history = <<>>
    /\ currentPair = NoPair
    /\ surfaced = FALSE
    /\ seen = NothingSeen
    /\ IdlePage

SortBuildGroups ==
    /\ pc = "idle"
    /\ pc' = "grouped"
    /\ features' = rootedFeatures(features, parent)
    /\ groups' = buildGroups(rootedFeatures(features, parent))
    /\ parent' = resolveAll(parent, featureLookups(features))
    /\ UNCHANGED <<pageVars, logVars, gateVars, groupIds, corrections, decisions,
                   decisionsByPair, candidates, remaining, history, currentPair,
                   surfaced, seen>>

NextSort == SortBuildGroups

SpecSort == InitSort /\ [][NextSort]_vars

\* The order the member list is said to have: by signature, records with a
\* signature first, and by external identifier when signatures are absent
\* or equal.
OrderedBySignatureThenId(fa, fb) ==
    LET signatureA == normalizeId(fa.signature)
        signatureB == normalizeId(fb.signature)
    IN  IF signatureA # signatureB /\ signatureA # EmptyStr /\ signatureB # EmptyStr
            THEN StrLess(signatureA, signatureB)
        ELSE IF signatureA # signatureB THEN signatureA # EmptyStr
        ELSE ~StrLess(normalizeId(fb.id), normalizeId(fa.id))

PrimaryView(feats, gs) ==
    {[id |-> gs[n].id, primary |-> feats[gs[n].primary].id,
      lat |-> gs[n].lat, lon |-> gs[n].lon] : n \in 1..Len(gs)}

Reordered(f) == rootedFeatures(Permuted(features, f), parent)

\* C19: the member list of every group is ordered by signature and, where
\* signatures are absent or equal, by external identifier, and the primary
\* record and coordinate of the group are the same for every order in which
\* the same records can appear in the input.
C19_PrimaryIndependentOfOrder ==
    pc = "grouped" =>
        /\ \A n \in 1..Len(groups) : \A a, b \in 1..Len(groups[n].items) :
            a < b => OrderedBySignatureThenId(features[groups[n].items[a]],
                                              features[groups[n].items[b]])
        /\ \A f \in SortOrders(Len(features)) :
            PrimaryView(Reordered(f), buildGroups(Reordered(f)))
                = PrimaryView(features, groups)

\* The same, for the groups in which no two records share a signature.
SignaturesDistinct ==
    \A i, j \in 1..Len(features) :
        (i # j /\ normalizeId(features[i].signature) # EmptyStr)
            => normalizeId(features[i].signature) # normalizeId(features[j].signature)

C19_DistinctSignatures == SignaturesDistinct => C19_PrimaryIndependentOfOrder

----------------------------------------------------------------------------
(* The group review page, group-review.js: the series key of the records
   that come without one. *)

UnitSeparator == <<31>>

\* String(value || "").trim()
normalizeGroupValue(value) == Trim(value)

\* parts.join("\x1f")
joinParts(parts) == parts[1] \o UnitSeparator \o parts[2] \o UnitSeparator \o parts[3]

ensureGroupIdSkipsEmptyTriad(f) ==
    LET parts == <<normalizeGroupValue(f.description), normalizeGroupValue(f.author),
                   normalizeGroupValue(f.date_label)>>
    IN  IF f.group_id # EmptyStr THEN f
        ELSE IF parts = <<EmptyStr, EmptyStr, EmptyStr>> THEN f
        ELSE [f EXCEPT !.group_id = Trim(joinParts(parts))]

\* trim() removes white space and line terminators; U+001F is neither.
ensureGroupId(f) ==
    LET parts == <<normalizeGroupValue(f.description), normalizeGroupValue(f.author),
                   normalizeGroupValue(f.date_label)>>
        key == Trim(joinParts(parts))
    IN  IF f.group_id # EmptyStr THEN f
        ELSE IF key # EmptyStr THEN [f EXCEPT !.group_id = key]
        ELSE f

\* state.groups: the groups of more than one record.
reviewGroups(gs) == SelectSeq(gs, LAMBDA g : Len(g.items) > 1)

Triads ==
    { <<EmptyStr, EmptyStr, EmptyStr>>,
      <<EmptyStr, EmptyStr, <<32>>>>,
      <<<<100>>, EmptyStr, EmptyStr>>,
      <<<<100>>, <<97>>, <<32, 49>>>> }

ReviewRecord(id, group, triad, k) ==
    [id |-> id, group_id |-> group, signature |-> EmptyStr,
     lat |-> Num(k), lon |-> Num(k), corrected |-> <<>>, group_root |-> EmptyStr,
     description |-> triad[1], author |-> triad[2], date_label |-> triad[3]]

ReviewInputs ==
    UNION {{[i \in 1..n |-> ReviewRecord(SortIds[i], group[i], triad[i], i)] :
                group \in [1..n -> {EmptyStr, KeyA}], triad \in [1..n -> Triads]} :
            n \in 1..MaxItems}

InitGroupReview ==
    /\ IdleLog
    /\ IdleGate
    /\ IdleResolver
    /\ pc = "idle"
    /\ features \in ReviewInputs
    /\ corrections = <<>>
    /\ decisionsByPair = <<>>
    /\ groups = <<>>
    /\ candidates = <<>>
    /\ remaining = <<>>
    /\ history = <<>>
    /\ currentPair = NoPair
    /\ surfaced = FALSE
    /\ seen = NothingSeen
    /\ IdlePage

GRBootstrap ==
    /\ pc = "idle"
    /\ pc' = "grouped"
    /\ features' = baseRooted([i \in 1..Len(features) |-> ensureGroupId(features[i])])
    /\ groups' = buildGroups(features')
    /\ candidates' = reviewGroups(groups')
    /\ UNCHANGED <<pageVars, logVars, gateVars, groupIds, corrections, decisions, parent,
                   decisionsByPair, remaining, history, currentPair, surfaced, seen>>

NextGroupReview == GRBootstrap

SpecGroupReview == InitGroupReview /\ [][NextGroupReview]_vars

LacksTriad(f) ==
    /\ normalizeGroupValue(f.description) = EmptyStr
    /\ normalizeGroupValue(f.author) = EmptyStr
    /\ normalizeGroupValue(f.date_label) = EmptyStr

Unkeyed == {i \in 1..Len(features) : features[i].group_id = EmptyStr /\ LacksTriad(features[i])}

\* C20: a record that comes without a series key and without description,
\* author and date label is grouped under its own external identifier: it is
\* alone in its group, and two such records never share a group.
C20_UnkeyedRecordsAreSingletons ==
    [][(pc = "idle" /\ pc' = "grouped") =>
        \A i \in Unkeyed :
            /\ featureGroupKey(features'[i]) = normalizeId(features[i].id)
            /\ \A n \in 1..Len(groups') :
                i \in Members(groups'[n]) => Members(groups'[n]) = {i}]_vars

----------------------------------------------------------------------------
(* The decision log as a whole. *)

IsPrefix(s, t) == Len(s) <= Len(t) /\ SubSeq(t, 1, Len(s)) = s

LogRows == Len(mergeLog) + Len(corrLog)

\* C21: every step leaves the rows already in the two tables as they are, in
\* place; a request answered with success adds exactly one row behind them
\* and any other step adds none.
C21_AppendOnly ==
    [][/\ IsPrefix(mergeLog, mergeLog')
       /\ IsPrefix(corrLog, corrLog')
       /\ (Len(mergeLog') + Len(corrLog')) - LogRows \in {0, 1}
       /\ (Len(mergeLog') + Len(corrLog') = LogRows + 1) => response'.status = 200
       /\ (response'.status = 200 /\ response' # response) =>
            Len(mergeLog') + Len(corrLog') = LogRows + 1]_vars

\* Two decisions on the same pair, both accepted, both stored.
C21_Witness ==
    /\ Len(mergeLog) = 2
    /\ mergeLog[1].group_id_a = mergeLog[2].group_id_a
    /\ mergeLog[1].group_id_b = mergeLog[2].group_id_b
    /\ response.status = 200

----------------------------------------------------------------------------
(* Trusted sessions. *)

\* The cookie issued by the session endpoint: signed with the configured
\* secret and not yet expired.
TrustedSession(req) == req.json /\ req.cookie = "valid" /\ sessionSecret(env)

\* C22: a well-formed write request sent with a trusted session is accepted
\* whatever its token, on the merge path and on the correction path alike.
C22_SessionAuthorizesEveryWrite ==
    /\ \A req \in MergeRequests :
        (TrustedSession(req) /\ ~MergeFailsValidation(req)) =>
            mergesHandlePost(mergeLog, req, env).status = 200
    /\ \A req \in CorrectionRequests :
        (TrustedSession(req) /\ ~CorrectionFailsValidation(req)) =>
            correctionsHandlePost(corrLog, req, env).status = 200

\* The merge path alone.
C22_SessionAuthorizesMerges ==
    \A req \in MergeRequests :
        (TrustedSession(req) /\ ~MergeFailsValidation(req)) =>
            mergesHandlePost(mergeLog, req, env).status = 200

----------------------------------------------------------------------------
(* The order of the corrections read, checked on the map page. *)

\* The rows of the corrections table the session's read has seen.
ReadRows == 1..seen.corrAt

ReadRowOf(xid) ==
    CHOOSE n \in ReadRows :
        /\ corrLog[n].xid = xid
        /\ \A m \in ReadRows : corrLog[m].xid = xid => m <= n

RowGroup(n) == resolveGroupId(parent, groupIdByXidMap(Photos)[corrLog[n].xid])

FreshMapBootstrap ==
    pc = "mapReady" /\ seen.photosOk /\ seen.mergesOk /\ seen.corrOk /\ seen.local = 0

\* Two positioned corrections against different records of one group, and
\* nothing else filed against that group.
TwoPositioned(i, j) ==
    /\ i < j
    /\ corrLog[i].xid # corrLog[j].xid
    /\ RowGroup(i) = RowGroup(j)
    /\ \A k \in ReadRows :
        RowGroup(k) = RowGroup(j) => (k \in {i, j} /\ corrLog[k].has_coordinates = 1)

\* C23: a bootstrap receives the corrections in the order of their rows, and
\* of two positioned corrections filed against different records of one
\* group the later one gives the group its coordinate.
C23_ReadInInsertionOrder ==
    FreshMapBootstrap =>
        /\ \A p, q \in 1..Len(corrections) :
            p < q => ReadRowOf(corrections[p].xid) < ReadRowOf(corrections[q].xid)
        /\ \A i, j \in ReadRows :
            TwoPositioned(i, j) =>
                \A n \in 1..Len(groups) :
                    groups[n].id = RowGroup(j) =>
                        /\ groups[n].lat = corrLog[j].lat
                        /\ groups[n].lon = corrLog[j].lon

----------------------------------------------------------------------------
(* The merges read. *)

StoredPairs == {<<mergeLog[n].group_id_a, mergeLog[n].group_id_b>> : n \in 1..Len(mergeLog)}

LastDecisionOn(pair) ==
    CHOOSE n \in 1..Len(mergeLog) :
        /\ <<mergeLog[n].group_id_a, mergeLog[n].group_id_b>> = pair
        /\ \A m \in 1..Len(mergeLog) :
            <<mergeLog[m].group_id_a, mergeLog[m].group_id_b>> = pair => m <= n

ItemsOn(pair) ==
    {it \in mergesHandleGet(mergeLog) : <<it.group_id_a, it.group_id_b>> = pair}

\* C24: the merges read returns one item for each stored pair and none for
\* any other, and the item carries the verdict of the last row of its pair.
C24_OneLatestItemPerPair ==
    /\ \A it \in mergesHandleGet(mergeLog) : <<it.group_id_a, it.group_id_b>> \in StoredPairs
    /\ \A pair \in StoredPairs :
        /\ Cardinality(ItemsOn(pair)) = 1
        /\ \A it \in ItemsOn(pair) : it.verdict = mergeLog[LastDecisionOn(pair)].verdict

\* A pair decided "same" and then "different".
C24_Witness ==
    /\ Len(mergeLog) = 2
    /\ <<mergeLog[1].group_id_a, mergeLog[1].group_id_b>>
        = <<mergeLog[2].group_id_a, mergeLog[2].group_id_b>>
    /\ mergeLog[1].verdict = VSame
    /\ mergeLog[2].verdict = VDifferent
    /\ mergesHandleGet(mergeLog) = {mergeLog[2]}

----------------------------------------------------------------------------
(* The pool of candidate pairs of the review page: buildCandidates for a
   number of groups at one spot, then the "skip" button (SpecSkip) and the
   "skip" and "previous" buttons (SpecBrowse). *)

PoolKeys == <<KeyA, KeyAB, KeyB, Xid1, Xid2>>

PoolGroups(n) ==
    [k \in 1..n |-> [id |-> PoolKeys[k], items |-> <<k>>, primary |-> k,
                     lat |-> Num(1), lon |-> Num(1)]]

InitPool ==
    /\ IdleLog
    /\ IdleGate
    /\ IdleResolver
    /\ pc = "ready"
    /\ features = <<>>
    /\ corrections = <<>>
    /\ decisionsByPair = <<>>
    /\ groups \in {PoolGroups(n) : n \in 0..MaxPoolGroups}
    /\ candidates = buildCandidates(groups, decisionsByPair)
    /\ remaining = candidates
    /\ history = <<>>
    /\ currentPair = NoPair
    /\ surfaced = FALSE
    /\ seen = NothingSeen
    /\ IdlePage

\* The click on "skip".
Skip ==
    /\ Len(history) < MaxHistory
    /\ \E next \in pickNext(candidates, remaining, history, currentPair) :
        /\ remaining' = next.remaining
        /\ history' = next.history
        /\ currentPair' = next.currentPair
    /\ UNCHANGED <<pageVars, logVars, gateVars, pc, features, groupIds, corrections, decisions,
                   parent, decisionsByPair, groups, candidates, surfaced, seen>>

\* The click on "previous".
Prev ==
    /\ LET prev == pickPrev(remaining, history, currentPair)
       IN  /\ remaining' = prev.remaining
           /\ history' = prev.history
           /\ currentPair' = prev.currentPair
    /\ UNCHANGED <<pageVars, logVars, gateVars, pc, features, groupIds, corrections, decisions,
                   parent, decisionsByPair, groups, candidates, surfaced, seen>>

NextSkip == Skip

SpecSkip == InitPool /\ [][NextSkip]_vars

NextBrowse == Skip \/ Prev

SpecBrowse == InitPool /\ [][NextBrowse]_vars

Elements(q) == {q[n] : n \in 1..Len(q)}

NoRepeat(q) == \A i, j \in 1..Len(q) : q[i] = q[j] => i = j

\* The pairs shown so far, in the order shown (SpecSkip only).
Shown == IF currentPair = NoPair THEN history ELSE Append(history, currentPair)

MinOf(a, b) == IF a < b THEN a ELSE b

\* Round r: the shows r*n+1 .. r*n+n, as far as they have happened.
Round(r) ==
    SubSeq(Shown, r * Len(candidates) + 1,
           MinOf(Len(Shown), (r + 1) * Len(candidates)))

\* C25: with only "next" operations from a freshly built pool of n pairs, the
\* first n shows, and every later run of n, show every candidate pair
\* exactly once, and the pool always holds exactly the candidates not yet
\* shown in the current run, so it is refilled only when it is empty.
C25_DrainedWithoutReplacement ==
    Len(candidates) > 0 =>
        /\ \A r \in 0..(Len(Shown) \div Len(candidates)) :
            /\ NoRepeat(Round(r))
            /\ Elements(Round(r)) \subseteq Elements(candidates)
            /\ Len(Round(r)) = Len(candidates) =>
                Elements(Round(r)) = Elements(candidates)
        /\ NoRepeat(remaining)
        /\ Len(Shown) > 0 =>
            Elements(remaining) = Elements(candidates)
                \ Elements(Round((Len(Shown) - 1) \div Len(candidates)))
        /\ Len(Shown) = 0 => remaining = candidates

\* Three pairs, shown twice over.
C25_Witness ==
    /\ Len(candidates) = 3
    /\ Len(Shown) = 6
    /\ remaining = <<>>

\* C30: in a session of "next" and "previous" operations the pool holds no
\* pair twice, does not hold the pair on screen and is no longer than the
\* candidate list.
C30_PoolInvariant ==
    /\ NoRepeat(remaining)
    /\ currentPair = NoPair \/ currentPair \notin Elements(remaining)
    /\ Len(remaining) <= Len(candidates)

----------------------------------------------------------------------------
(* Pair identities: buildCandidates for groups whose keys are any non-empty
   strings, as the dataset and the merge endpoint allow. *)

\* "a", "b", "c", "a::b", "b::c"
KeyC == <<99>>
KeyAColonsB == <<97, 58, 58, 98>>
KeyBColonsC == <<98, 58, 58, 99>>
GroupKeyPool == {KeyA, KeyB, KeyC, KeyAColonsB, KeyBColonsC}

KeyedGroups ==
    UNION {{[k \in 1..n |-> [id |-> ids[k], items |-> <<k>>, primary |-> k,
                             lat |-> Num(1), lon |-> Num(1)]] :
                ids \in {f \in [1..n -> GroupKeyPool] :
                            \A i, j \in 1..n : f[i] = f[j] => i = j}} :
            n \in 0..MaxKeyedGroups}

InitPairs ==
    /\ IdleLog
    /\ IdleGate
    /\ IdleResolver
    /\ pc = "idle"
    /\ features = <<>>
    /\ corrections = <<>>
    /\ decisionsByPair = <<>>
    /\ groups \in KeyedGroups
    /\ candidates = <<>>
    /\ remaining = <<>>
    /\ history = <<>>
    /\ currentPair = NoPair
    /\ surfaced = FALSE
    /\ seen = NothingSeen
    /\ IdlePage

BuildCandidates ==
    /\ pc = "idle"
    /\ pc' = "ready"
    /\ candidates' = buildCandidates(groups, decisionsByPair)
    /\ remaining' = buildCandidates(groups, decisionsByPair)
    /\ UNCHANGED <<pageVars, logVars, gateVars, features, groupIds, corrections, decisions,
                   parent, decisionsByPair, groups, history, currentPair, surfaced,
                   seen>>

NextPairs == BuildCandidates

SpecPairs == InitPairs /\ [][NextPairs]_vars

GroupIdsOf(gs) == {gs[n].id : n \in 1..Len(gs)}

\* C26: the identity of a pair does not depend on the order of its two
\* keys, and two different unordered pairs of group keys have different
\* identities.
C26_PairKeySymmetricInjective ==
    pc = "ready" =>
        /\ \A a, b \in GroupIdsOf(groups) : pairKey(a, b) = pairKey(b, a)
        /\ \A m, n \in 1..Len(candidates) :
            {candidates[m].groupA, candidates[m].groupB}
                    # {candidates[n].groupA, candidates[n].groupB}
                => candidates[m].key # candidates[n].key

\* Symmetry alone.
C26_PairKeySymmetric ==
    pc = "ready" =>
        \A a, b \in GroupIdsOf(groups) : pairKey(a, b) = pairKey(b, a)

----------------------------------------------------------------------------
(* The resolver and the decisions it ignores or sees twice, checked in
   SpecUF. *)

IsDifferent(item) == item.verdict = VDifferent

DifferentItems == {Decision(a, b, VDifferent) : a \in Keys, b \in Keys}

InsertAt(q, n, x) == SubSeq(q, 1, n) \o <<x>> \o SubSeq(q, n + 1, Len(q))

SameKeys(p, q) == \A k \in Keys : resolveGroupId(p, k) = resolveGroupId(q, k)

\* C27: the resolver built from the decision list, from the list without its
\* "different" decisions, and from the list with one more "different"
\* decision on any pair at any place all give every key the same canonical
\* key.
C27_DifferentNotApplied ==
    /\ SameKeys(buildMergeResolver(groupIds,
                    SelectSeq(decisions, LAMBDA item : ~IsDifferent(item))),
                parent)
    /\ \A d \in DifferentItems : \A n \in 0..Len(decisions) :
        SameKeys(buildMergeResolver(groupIds, InsertAt(decisions, n, d)), parent)

\* A "different" decision on b and ab in the list, and b and ab apart.
C27_Witness ==
    /\ \E n \in 1..Len(decisions) : decisions[n] = Decision(KeyB, KeyAB, VDifferent)
    /\ \E n \in 1..Len(decisions) : WellFormedSame(decisions[n])
    /\ resolveGroupId(parent, KeyB) # resolveGroupId(parent, KeyAB)

\* C28: a "same" decision applied a second time right away leaves the
\* canonical key of every key, and so the partition, as it was after the
\* first time; and a decision list in which one of its "same" decisions
\* occurs once more, at any place, gives every key the canonical key the
\* list itself gives.
C28_UnionIdempotent ==
    /\ \A item \in UFItems :
        SameKeys(mergeItemStep(mergeItemStep(parent, item), item),
                 mergeItemStep(parent, item))
    /\ \A n \in 1..Len(decisions) : \A m \in 0..Len(decisions) :
        SameKeys(buildMergeResolver(groupIds, InsertAt(decisions, m, decisions[n])),
                 parent)

\* A "same" decision that merged two classes, present in the list.
C28_Witness ==
    /\ Len(decisions) >= 2
    /\ WellFormedSame(decisions[1])
    /\ decisions[2] = decisions[1]
    /\ resolveGroupId(parent, decisions[1].group_id_a)
        = resolveGroupId(parent, decisions[1].group_id_b)

----------------------------------------------------------------------------
(* Corrections without a position, from the table to the map page. *)

PositionedRowsFor(i) ==
    {n \in ReadRows :
        /\ corrLog[n].has_coordinates = 1
        /\ RowGroup(n) = resolveGroupId(parent, featureGroupKey(Photos[i]))}

UnpositionedRowsFor(i) ==
    {n \in ReadRows :
        /\ corrLog[n].has_coordinates = 0
        /\ RowGroup(n) = resolveGroupId(parent, featureGroupKey(Photos[i]))}

\* C29: after a bootstrap, a record whose group has only been confirmed or
\* flagged, never given a position, lies where the dataset puts it and is
\* not flagged corrected.
C29_UnpositionedEntryChangesNothing ==
    FreshMapBootstrap =>
        \A i \in 1..Len(Photos) :
            (UnpositionedRowsFor(i) # {} /\ PositionedRowsFor(i) = {}) =>
                /\ features[i].lat = Photos[i].lat
                /\ features[i].lon = Photos[i].lon
                /\ features[i].corrected = <<>>

----------------------------------------------------------------------------
(* The shape of the parent map, checked in SpecUF. *)

\* The key reached from k after n steps along the parent map.
RECURSIVE Ancestor(_, _, _)
Ancestor(p, k, n) == IF n = 0 THEN k ELSE Ancestor(p, p[k], n - 1)

\* C36: the parent of every key is the key itself or a lexicographically
\* smaller key, so the walk from any key along the parent map stops at a key
\* that is its own parent within as many steps as there are keys.
C36_ParentNotGreater ==
    /\ \A k \in DOMAIN parent : parent[k] = k \/ StrLess(parent[k], k)
    /\ \A k \in DOMAIN parent :
        LET top == Ancestor(parent, k, Cardinality(DOMAIN parent))
        IN  /\ top \in DOMAIN parent
            /\ parent[top] = top

C36_Witness ==
    /\ Cardinality({k \in DOMAIN parent : StrLess(parent[k], k)}) >= 2
    /\ \E k \in DOMAIN parent : k \notin groupIds

----------------------------------------------------------------------------
(* SpecHelp: the help page, pomoc.js, over the first records of Photos.  The page's
   state is gathered in a record so that the functions of pomoc.js, which
   call one another, can be written as functions from a state to the set of
   states they can leave (Math.random picks the group).  The server answers
   a read of the corrections with the table as it is when the response
   arrives. *)

HelpPhotos == SubSeq(Photos, 1, MaxHelpRecords)

BypassEnv == [bypass |-> TRUE, secretKey |-> FALSE, sessionSecret |-> FALSE]

HelpState ==
    [dataReady |-> dataReady, flowStarted |-> flowStarted,
     sessionVerified |-> sessionVerified, controlsEnabled |-> controlsEnabled,
     currentGroup |-> currentGroup, refreshes |-> refreshes, mode |-> mode,
     remaining |-> remaining, history |-> history, corrLog |-> corrLog]

SetHelpState(st) ==
    /\ st.refreshes <= MaxRefreshes
    /\ Len(st.history) <= MaxShown
    /\ Len(st.corrLog) <= MaxVotes
    /\ dataReady' = st.dataReady
    /\ flowStarted' = st.flowStarted
    /\ sessionVerified' = st.sessionVerified
    /\ controlsEnabled' = st.controlsEnabled
    /\ currentGroup' = st.currentGroup
    /\ refreshes' = st.refreshes
    /\ mode' = st.mode
    /\ remaining' = st.remaining
    /\ history' = st.history
    /\ corrLog' = st.corrLog
    /\ logStates' = logStates \cup {<<Len(mergeLog), Len(st.corrLog)>>}

GroupIdList(gs) == [n \in 1..Len(gs) |-> gs[n].id]

\* buildDoneGroupSet of zoomify.js.
buildDoneGroupSet(items, byXid, p) ==
    {resolveGroupId(p, correctionBaseGroup(item, byXid)) :
        item \in {it \in items :
                    /\ correctionBaseGroup(it, byXid) # EmptyStr
                    /\ it.has_coordinates = 1 \/ it.verdict = VOk}} \ {EmptyStr}

\* The pool refreshRemainingCloud assigns when its response arrives: every
\* group that is not done, in the order of state.groups.
refreshedPool(gs, feats, p, log) ==
    LET done == buildDoneGroupSet(correctionsHandleGet(log), groupIdByXidMap(feats), p)
    IN  SelectSeq(GroupIdList(gs), LAMBDA g : g \notin done)

\* pickRandom: starts a refresh without awaiting it, refills an empty pool,
\* draws a group and shows it (showGroup resets state.mode).
pickRandom(st, gs) ==
    LET pool == IF st.remaining = <<>> THEN GroupIdList(gs) ELSE st.remaining
        hist == IF st.currentGroup # EmptyStr THEN Append(st.history, st.currentGroup)
                ELSE st.history
        sent == [st EXCEPT !.refreshes = @ + 1, !.mode = EmptyStr, !.history = hist]
    IN  IF pool = <<>>
        THEN {[sent EXCEPT !.remaining = <<>>, !.currentGroup = EmptyStr]}
        ELSE {[sent EXCEPT !.remaining = removeAt(pool, idx), !.currentGroup = pool[idx]] :
                idx \in 1..Len(pool)}

\* pickPrev of pomoc.js.
helpPickPrev(st) ==
    IF st.history = <<>> THEN st
    ELSE [st EXCEPT !.remaining = IF st.currentGroup # EmptyStr
                                  THEN Append(st.remaining, st.currentGroup)
                                  ELSE st.remaining,
                    !.history = SubSeq(st.history, 1, Len(st.history) - 1),
                    !.currentGroup = st.history[Len(st.history)],
                    !.mode = EmptyStr]

maybeStartFlow(st, gs) ==
    IF ~st.dataReady \/ ~st.sessionVerified \/ st.flowStarted THEN {st}
    ELSE pickRandom([st EXCEPT !.flowStarted = TRUE, !.controlsEnabled = TRUE], gs)

\* openVerifyModal: nothing when the session is verified, otherwise the
\* modal opens and the controls are disabled.
openVerifyModal(st) ==
    IF st.sessionVerified THEN st ELSE [st EXCEPT !.controlsEnabled = FALSE]

\* The record whose details are displayed with the group: its primary.
currentXid(st, gs, feats) ==
    LET n == CHOOSE n \in 1..Len(gs) : gs[n].id = st.currentGroup
    IN  feats[gs[n].primary].id

\* submitOk and submitCorrection: the POST of the vote, sent with the
\* session cookie and no token, and the pickRandom its success schedules.
helpSubmit(st, gs, feats, e) ==
    IF st.currentGroup = EmptyStr \/ st.mode = EmptyStr THEN {st}
    ELSE IF ~st.sessionVerified /\ ~e.bypass THEN {openVerifyModal(st)}
    ELSE LET body == IF st.mode = VOk
                     THEN [xid |-> currentXid(st, gs, feats), lat |-> Null, lon |-> Null,
                           verdict |-> VOk, email |-> "none"]
                     ELSE [xid |-> currentXid(st, gs, feats), lat |-> Num(2), lon |-> Num(2),
                           verdict |-> VWrong, email |-> "none"]
             out == correctionsHandlePost(st.corrLog,
                        CorrectionRequest(body, [token |-> "none", cookie |-> "valid"]), e)
         IN  IF out.status = 200 THEN pickRandom([st EXCEPT !.corrLog = out.log], gs)
             ELSE {openVerifyModal([st EXCEPT !.sessionVerified = FALSE])}

\* submitVerification with a response that is ok, without the call that
\* enables the controls.
submitVerificationGated(st, gs, feats, e) ==
    IF st.sessionVerified THEN {st}
    ELSE IF e.bypass
        THEN maybeStartFlow([st EXCEPT !.sessionVerified = TRUE], gs)
    ELSE UNION {IF started.mode = VOk THEN helpSubmit(started, gs, feats, e) ELSE {started} :
                    started \in maybeStartFlow([st EXCEPT !.sessionVerified = TRUE], gs)}

\* submitVerification with a response that is ok.
submitVerification(st, gs, feats, e) ==
    IF st.sessionVerified THEN {st}
    ELSE IF e.bypass
        THEN maybeStartFlow([st EXCEPT !.sessionVerified = TRUE], gs)
    ELSE UNION {LET enabled == [started EXCEPT !.controlsEnabled = TRUE]
                IN  IF enabled.mode = VOk THEN helpSubmit(enabled, gs, feats, e)
                    ELSE {enabled} :
                    started \in maybeStartFlow([st EXCEPT !.sessionVerified = TRUE], gs)}

InitHelp ==
    /\ IdleLog
    /\ env \in {ProdEnv, BypassEnv}
    /\ response = NoResponse
    /\ IdleResolver
    /\ IdleSession
    /\ IdlePage

\* bootstrap up to the verification modal: /api/config is read, the
\* controls are disabled, and the session counts as verified under bypass.
HelpConfig ==
    /\ pc = "idle"
    /\ pc' = "config"
    /\ SetHelpState([HelpState EXCEPT !.controlsEnabled = FALSE,
                                      !.sessionVerified = env.bypass])
    /\ UNCHANGED <<zoomVars, clockVars, mergeLog, gateVars, features, groupIds, corrections,
                   decisions, parent, decisionsByPair, groups, candidates, currentPair,
                   surfaced, seen>>

\* bootstrap from the dataset to the groups; the call of
\* refreshRemainingCloud it awaits is sent.  A failed fetch of the dataset
\* rejects bootstrap(); failed reads of the logs stand for no items.
HelpDerive ==
    /\ pc = "config"
    /\ \E ok \in BOOLEAN :
        IF ~ok
        THEN /\ pc' = "failed"
             /\ surfaced' = TRUE
             /\ UNCHANGED <<features, groupIds, decisions, parent, corrections, groups>>
        ELSE \E merges \in ResultOrders(mergesHandleGet(mergeLog)) :
             \E items \in ResultOrders(correctionsHandleGet(corrLog)) :
                LET ids == groupIdSet(HelpPhotos)
                    built == buildMergeResolver(ids, merges)
                    byXid == groupIdByXidMap(HelpPhotos)
                    applied == applyCorrections(HelpPhotos, items, byXid, built)
                    rooted == rootedFeatures(applied, built)
                IN  /\ pc' = "derived"
                    /\ surfaced' = surfaced
                    /\ features' = rooted
                    /\ groupIds' = ids
                    /\ decisions' = merges
                    /\ corrections' = items
                    /\ parent' = resolveAll(built,
                                    correctionLookups(items, byXid) \o featureLookups(HelpPhotos))
                    /\ groups' = buildGroups(rooted)
    /\ UNCHANGED <<pageVars, logVars, gateVars, decisionsByPair, candidates, remaining, history,
                   currentPair, seen>>

\* The awaited refresh arrives (or fails and is logged) and bootstrap ends:
\* dataReady, maybeStartFlow.
HelpReady ==
    /\ pc = "derived"
    /\ pc' = "ready"
    /\ \E ok \in BOOLEAN :
        LET rem == IF ok THEN refreshedPool(groups, features, parent, corrLog)
                   ELSE remaining
        IN  \E st \in maybeStartFlow([HelpState EXCEPT !.remaining = rem,
                                                       !.dataReady = TRUE], groups) :
                SetHelpState(st)
    /\ UNCHANGED <<zoomVars, clockVars, mergeLog, gateVars, features, groupIds, corrections,
                   decisions, parent, decisionsByPair, groups, candidates, currentPair,
                   surfaced, seen>>

\* The response of /api/verify arrives and is ok.
HelpVerify ==
    /\ pc \in {"config", "derived", "ready"}
    /\ ~sessionVerified
    /\ \E st \in submitVerification(HelpState, groups, features, env) : SetHelpState(st)
    /\ UNCHANGED <<zoomVars, clockVars, mergeLog, gateVars, pc, features, groupIds, corrections,
                   decisions, parent, decisionsByPair, groups, candidates, currentPair,
                   surfaced, seen>>

\* The click on "skip".
HelpSkip ==
    /\ controlsEnabled
    /\ \E st \in pickRandom(HelpState, groups) : SetHelpState(st)
    /\ UNCHANGED <<zoomVars, clockVars, mergeLog, gateVars, pc, features, groupIds, corrections,
                   decisions, parent, decisionsByPair, groups, candidates, currentPair,
                   surfaced, seen>>

\* The click on "previous" (the button is also disabled while the history
\* is empty).
HelpPrev ==
    /\ controlsEnabled
    /\ history # <<>>
    /\ SetHelpState(helpPickPrev(HelpState))
    /\ UNCHANGED <<zoomVars, clockVars, mergeLog, gateVars, pc, features, groupIds, corrections,
                   decisions, parent, decisionsByPair, groups, candidates, currentPair,
                   surfaced, seen>>

\* A vote: setMode("ok") submits at once; setMode("wrong") is followed by
\* the click on the map and the submission of the form.
HelpVote ==
    /\ controlsEnabled
    /\ currentGroup # EmptyStr
    /\ \E v \in {VOk, VWrong} :
        \E st \in helpSubmit([HelpState EXCEPT !.mode = v], groups, features, env) :
            SetHelpState(st)
    /\ UNCHANGED <<zoomVars, clockVars, mergeLog, gateVars, pc, features, groupIds, corrections,
                   decisions, parent, decisionsByPair, groups, candidates, currentPair,
                   surfaced, seen>>

\* The response of a refresh that was not awaited arrives.
HelpRefreshArrives ==
    /\ refreshes > 0
    /\ SetHelpState([HelpState EXCEPT
            !.refreshes = @ - 1,
            !.remaining = refreshedPool(groups, features, parent, corrLog)])
    /\ UNCHANGED <<zoomVars, clockVars, mergeLog, gateVars, pc, features, groupIds, corrections,
                   decisions, parent, decisionsByPair, groups, candidates, currentPair,
                   surfaced, seen>>

\* Another visitor confirms the position of the first record.
HelpOtherVote ==
    /\ \E i \in {1} :
        LET body == [xid |-> HelpPhotos[i].id, lat |-> Null, lon |-> Null,
                     verdict |-> VOk, email |-> "none"]
            out == correctionsHandlePost(corrLog, CorrectionRequest(body, GoodToken), env)
        IN  /\ out.status = 200
            /\ SetHelpState([HelpState EXCEPT !.corrLog = out.log])
    /\ UNCHANGED <<zoomVars, clockVars, mergeLog, gateVars, pc, features, groupIds, corrections,
                   decisions, parent, decisionsByPair, groups, candidates, currentPair,
                   surfaced, seen>>

NextHelp ==
    \/ HelpConfig
    \/ HelpDerive
    \/ HelpReady
    \/ HelpVerify
    \/ HelpSkip
    \/ HelpPrev
    \/ HelpVote
    \/ HelpRefreshArrives
    \/ HelpOtherVote

SpecHelp == InitHelp /\ [][NextHelp]_vars

\* C31: when the response of a refresh that was not awaited arrives, the
\* group on screen is not in the pool afterwards, and no group of the
\* history that was out of the pool is put back into it.
C31_RefreshKeepsDrawnGroupsOut ==
    [][refreshes' < refreshes =>
        /\ currentGroup # EmptyStr => currentGroup \notin Elements(remaining')
        /\ \A g \in Elements(history) :
            g \notin Elements(remaining) => g \notin Elements(remaining')]_vars

\* C35: the controls are enabled only when the dataset derivation has
\* completed and the session is verified (or bypass is on), and a group is
\* on screen only once both have happened and the flow has started.
C35_ControlsAfterDataAndSession ==
    /\ controlsEnabled => dataReady /\ (sessionVerified \/ env.bypass)
    /\ currentGroup # EmptyStr => dataReady /\ flowStarted

----------------------------------------------------------------------------
(* SpecZoom: the left side of the review page, photo-meta.js.  Records are
   selected one after the other (showPair, or a version picked in the
   details); each selection that changes the record asks /api/zoomify for
   the metadata, and the responses arrive in any order. *)

ZoomRecords == {(<<Xid3, Xid4, Xid1, Xid2>>)[n] : n \in 1..MaxZoomRecords}

InitZoom ==
    /\ IdleLog
    /\ IdleGate
    /\ IdleResolver
    /\ IdleSession
    /\ IdlePage

\* setSideFeature("left", group, feature) with loadZoomifyInto up to its
\* await.
ZoomSelect ==
    /\ \E xid \in ZoomRecords :
        /\ leftFeature' = xid
        /\ IF zoomLastXid = xid
           THEN UNCHANGED <<zoomLastXid, zoomRequests, zoomFallback>>
           ELSE /\ Len(zoomRequests) < MaxZoomRequests
                /\ zoomLastXid' = xid
                /\ zoomFallback' = FALSE
                /\ zoomRequests' = Append(zoomRequests, xid)
    /\ UNCHANGED <<helpVars, clockVars, logVars, gateVars, sessVars, zoomOpened>>

\* loadZoomifyInto after its await: the metadata of a request arrive and the
\* viewer opens them, or the request fails and the frame is shown instead.
ZoomMetaArrives ==
    /\ \E n \in 1..Len(zoomRequests), ok \in BOOLEAN :
        /\ zoomRequests' = removeAt(zoomRequests, n)
        /\ zoomOpened' = IF ok THEN zoomRequests[n] ELSE zoomOpened
        /\ zoomFallback' = IF ok THEN zoomFallback ELSE TRUE
    /\ UNCHANGED <<helpVars, clockVars, logVars, gateVars, sessVars, leftFeature, zoomLastXid>>

NextZoom == ZoomSelect \/ ZoomMetaArrives

SpecZoom == InitZoom /\ [][NextZoom]_vars

\* C32: once no metadata request is pending, the viewer, when it is the
\* viewer that is shown, has the image of the record selected last.
C32_ViewerShowsLastSelected ==
    (leftFeature # EmptyStr /\ zoomRequests = <<>> /\ ~zoomFallback) => zoomOpened = leftFeature

----------------------------------------------------------------------------
(* The candidate list across the decisions of a review session, checked in
   Spec. *)

\* C33: every decision the gateway accepts on the pair on screen leaves
\* fewer candidate pairs after the rebuild than there were before, the next
\* pair on screen is one of them, and no pair is on screen once there is
\* none; the length of the candidate list bounds the decisions to come.
C33_DecisionShrinksCandidates ==
    [][(pc = "ready" /\ seen'.local = seen.local + 1) =>
        /\ Len(candidates') < Len(candidates)
        /\ candidates' = <<>> => currentPair' = NoPair
        /\ candidates' # <<>> => \E n \in 1..Len(candidates') : currentPair' = candidates'[n]]_vars

C33_Witness ==
    /\ pc = "ready"
    /\ seen.local = 2
    /\ candidates = <<>>
    /\ currentPair = NoPair
    /\ \E n \in 1..Len(decisions) : decisions[n].verdict = VSame
    /\ \E n \in 1..Len(decisions) : decisions[n].verdict = VDifferent

----------------------------------------------------------------------------
(* SpecSession: the session cookie from /api/verify to POST /api/merges,
   with the server's clock.  The clock counts milliseconds and advances by
   half a second (MaxTicks times at most) or by the lifetime of a session
   (once).  A cookie is the pair of
   its expiry (seconds) and its signature; the HMAC of a payload under a
   secret is the pair of the two, so that two signatures are equal exactly
   when secret and payload are.  A client sends no cookie, a cookie the
   server issued, or one it made up: with a string of its own as the
   signature, or with an expiry that is not a number. *)

SESSION_TTL_SECONDS == 6 * 60 * 60

hmacSign(secret, payload) == <<secret, payload>>

\* The secret /api/verify signs with: the configured one, or "dev-bypass"
\* when none is configured and bypass is on ("" when there is none).
signingSecret(e) ==
    IF sessionSecret(e) THEN "configured" ELSE IF e.bypass THEN "dev-bypass" ELSE ""

MalformedCookie == [exp |-> -2, sig |-> <<"x", 0>>]

Seconds(ms) == ms \div 1000

\* onRequest of verify.js: the status, and the cookie it sets on success.
verifyOnRequest(token, e, nowMs) ==
    IF verifyTurnstile(token, e) # "ok" THEN [status |-> 400, cookie |-> NoCookie]
    ELSE IF signingSecret(e) = "" THEN [status |-> 500, cookie |-> NoCookie]
    ELSE LET exp == Seconds(nowMs) + SESSION_TTL_SECONDS
         IN  [status |-> 200,
              cookie |-> [exp |-> exp, sig |-> hmacSign(signingSecret(e), exp)]]

\* The same without the test of the expiry.
sessionCookieKindNoExpiry(cookie, e, nowMs) ==
    IF cookie = NoCookie THEN "none"
    ELSE IF cookie = MalformedCookie THEN "malformed"
    ELSE IF cookie.sig = hmacSign("configured", cookie.exp) THEN "valid"
    ELSE "forged"

\* What hasValidSession of merges.js finds out about the cookie: absent,
\* malformed, expired, or unexpired with or without the HMAC of its expiry
\* under the configured secret.
sessionCookieKind(cookie, e, nowMs) ==
    IF cookie = NoCookie THEN "none"
    ELSE IF cookie = MalformedCookie THEN "malformed"
    ELSE IF cookie.exp < Seconds(nowMs) THEN "expired"
    ELSE IF cookie.sig = hmacSign("configured", cookie.exp) THEN "valid"
    ELSE "forged"

\* A cookie made up by the client, with an expiry far ahead.
ForgedCookie == [exp |-> 100 * SESSION_TTL_SECONDS, sig |-> <<"forged", 0>>]

SessionCookies == {c.cookie : c \in issued} \cup {NoCookie, MalformedCookie, ForgedCookie}

InitSession ==
    /\ IdleLog
    /\ env \in Envs
    /\ response = NoResponse
    /\ IdleResolver
    /\ IdleSession
    /\ IdlePage

\* Time passes.
SessTick ==
    /\ \E d \in {500, 1000 * SESSION_TTL_SECONDS} :
        /\ now + d < 2 * 1000 * SESSION_TTL_SECONDS
        /\ (now + d) % (1000 * SESSION_TTL_SECONDS) <= 500 * MaxTicks
        /\ now' = now + d
    /\ UNCHANGED <<helpVars, zoomVars, logVars, gateVars, sessVars, issued, authorizedBy>>

\* POST /api/verify.
SessVerify ==
    /\ \E token \in Tokens :
        LET out == verifyOnRequest(token, env, now)
        IN  /\ response' = [status |-> out.status,
                            detail |-> IF out.status = 200 THEN "ok" ELSE "refused"]
            /\ issued' = IF out.status = 200
                         THEN issued \cup {[cookie |-> out.cookie, at |-> now]}
                         ELSE issued
            /\ Cardinality(issued') <= MaxSessions
    /\ UNCHANGED <<helpVars, zoomVars, logVars, env, sessVars, now, authorizedBy>>

\* POST /api/merges with a decision on one pair of series.
SessPostMerge ==
    /\ \E cookie \in SessionCookies, token \in {"none", "good"} :
        LET kind == sessionCookieKind(cookie, env, now)
            req == MergeRequest([group_id_a |-> KeyA, group_id_b |-> KeyB, verdict |-> VSame],
                                [token |-> token, cookie |-> kind])
            out == mergesHandlePost(mergeLog, req, env)
        IN  /\ Len(out.log) + Len(corrLog) <= MaxLogRows
            /\ mergeLog' = out.log
            /\ logStates' = logStates \cup {<<Len(out.log), Len(corrLog)>>}
            /\ response' = [status |-> out.status, detail |-> out.detail]
            /\ authorizedBy' = IF out.status = 200 /\ hasValidSession(kind, env)
                               THEN [cookie |-> cookie, at |-> now]
                               ELSE authorizedBy
    /\ UNCHANGED <<helpVars, zoomVars, corrLog, env, sessVars, now, issued>>

NextSession == SessTick \/ SessVerify \/ SessPostMerge

SpecSession == InitSession /\ [][NextSession]_vars

\* The verifications that issued the cookie of the last write accepted
\* through a session.
IssuesOf(cookie) == {c \in issued : c.cookie = cookie}

\* C34 as stated: a write accepted through a session carries a cookie whose
\* expiry has not passed and, with a secret configured, whose signature is
\* the HMAC of the expiry; the cookie was issued by a verification, with an
\* expiry 6 hours after it, and the write comes no more than 6 hours after
\* that verification.
C34_SessionWithinSixHours ==
    authorizedBy # Unauthorized =>
        /\ authorizedBy.cookie.exp >= Seconds(authorizedBy.at)
        /\ sessionSecret(env) =>
            authorizedBy.cookie.sig = hmacSign("configured", authorizedBy.cookie.exp)
        /\ \E c \in IssuesOf(authorizedBy.cookie) :
            /\ c.cookie.exp = Seconds(c.at) + SESSION_TTL_SECONDS
            /\ authorizedBy.at - c.at <= 1000 * SESSION_TTL_SECONDS

\* C34, amended: the same with the conclusion for servers with a secret
\* configured, and with the bound of 6 hours and less than one second more
\* (expiry and clock are compared in whole seconds).
C34_SessionWithinSixHoursAndASecond ==
    authorizedBy # Unauthorized =>
        /\ authorizedBy.cookie.exp >= Seconds(authorizedBy.at)
        /\ sessionSecret(env) =>
            /\ authorizedBy.cookie.sig = hmacSign("configured", authorizedBy.cookie.exp)
            /\ \E c \in IssuesOf(authorizedBy.cookie) :
                /\ c.cookie.exp = Seconds(c.at) + SESSION_TTL_SECONDS
                /\ authorizedBy.at - c.at < 1000 * (SESSION_TTL_SECONDS + 1)

C34_Witness ==
    /\ authorizedBy # Unauthorized
    /\ sessionSecret(env)
    /\ \E c \in IssuesOf(authorizedBy.cookie) :
        authorizedBy.at - c.at > 1000 * SESSION_TTL_SECONDS

====
